---------------------------- MODULE Spec2Model ----------------------------
(***************************************************************************)
(* ZIA-X dialogue coordination: the command handling of VitaCNS            *)
(* (src/vita_x.py), the decision engine DecisionBrain                      *)
(* (src/brains/decision_brain.py) and the permission lists of              *)
(* SecurityBrain (src/brains/security_brain.py).                           *)
(*                                                                         *)
(* A thread is either outside handle_command (pc = "idle") or at one of    *)
(* the program points of handle_command and of the methods it calls.  The  *)
(* text loop is the thread "text"; the command task of the listening       *)
(* brain is the thread "listener".  Spec runs the text thread alone,       *)
(* SpecConc runs both, SpecHistory runs the text thread for more calls     *)
(* over fewer commands, SpecResolve calls make_decision alone, over more   *)
(* commands, session contexts and knowledge bases, and SpecListen runs the *)
(* listening brain: wake word, command task, handle_command.  SpecSecurity *)
(* calls the methods of the security brain alone.                          *)
(*                                                                         *)
(* Confidences are fixed-point numbers, in millionths.  Strings of the     *)
(* program (commands, urls, domains) are strings of the model; what the    *)
(* regular expressions and the string methods of the source yield for the  *)
(* commands of the model is tabulated (Profile, ExtractUrl, ExtractDomain, *)
(* LowerStrip, NamedActions), the tables being evaluated from the          *)
(* source's own patterns.                                                  *)
(*                                                                         *)
(* All brains are enabled, as in the default configuration                 *)
(* (src/vita_x.py:118-125).  The session statistics and the log output     *)
(* are not modelled.                                                       *)
(***************************************************************************)
EXTENDS Integers, Sequences, FiniteSets, TLC

VARIABLES
    pending_security_question,      \* VitaCNS: None or Some([url, original_command])
    pending_decision_clarification, \* VitaCNS: None or Some([original_command, decision_result])
    trusted_sites,                  \* SecurityBrain
    blocked_sites,                  \* SecurityBrain
    one_time_sessions,              \* SecurityBrain
    session_usage,                  \* SecurityBrain: domain -> uses of its one-time session
    security_call,                  \* the last call made to the security brain alone, and its result
    conversation_history,           \* DecisionBrain: sequence of [command, intent, action]
    session_context,                \* DecisionBrain: [last_intent, time_of_day]
    user_preferences,               \* DecisionBrain: intent -> counter, a sequence of [key, count]
    chosen,                         \* history: intent -> counter of the actions resolved for it
    knowledge_base,                 \* DecisionBrain: intent -> [actions, priority, ...]
    decision_lock,                  \* DecisionBrain._decision_lock: the holder, or NoThread
    current_state,                  \* ListeningBrain: "WAKE_WORD" or "COMMAND"
    pc,                             \* per thread: program point
    command,                        \* per thread: handle_command's argument
    process_command,                \* per thread: _process_command_enhanced's argument
    clarification_context,          \* per thread: local of _handle_decision_clarification
    intent_matches,                 \* per thread: local of make_decision, the ranked matches
    decision_result,                \* per thread: result of the decision brain
    command_result,                 \* per thread: the CommandResult being returned
    turn,                           \* per thread: what the current call saw and did
    turns                           \* number of handle_command calls so far

vars == <<pending_security_question, pending_decision_clarification,
          trusted_sites, blocked_sites, one_time_sessions, session_usage, security_call,
          conversation_history, session_context, user_preferences, chosen,
          knowledge_base, decision_lock, current_state,
          pc, command, process_command, clarification_context, intent_matches, decision_result,
          command_result, turn, turns>>

cnsVars == <<pending_security_question, pending_decision_clarification>>
securityVars == <<trusted_sites, blocked_sites, one_time_sessions>>
contextVars == <<conversation_history, session_context, user_preferences, chosen>>
localVars == <<command, process_command, clarification_context, intent_matches, decision_result>>
fixedVars == <<knowledge_base, session_usage, security_call>>
brainVars == <<fixedVars, current_state>>

-----------------------------------------------------------------------------
(* Bounds *)

MaxTurns == 3
MaxConcTurns == 2
MaxHistoryTurns == 6
MaxResolveCalls == 1
MaxListenTurns == 2
MaxSessionUsage == 2
MaxAuditTurns == 2
MaxFairTurns == 2

-----------------------------------------------------------------------------
(* Values *)

None == <<>>
Some(x) == <<x>>

NoThread == "none"
Threads == {"text", "listener"}
TextThreads == {"text"}

\* the command tasks _handle_wake_word can start: each is a thread of its own
ListenerThreads == {"listener", "listener2"}
AllThreads == Threads \cup ListenerThreads

NoIntent == "None"
NoAction == "None"

One == 1000000
confidence_threshold == 700000
max_alternatives == 3
context_window == 5
learning_enabled == TRUE

TimeBuckets == {"morning", "afternoon", "evening", "night"}

-----------------------------------------------------------------------------
(* The pattern bank, the knowledge base and the string functions, for the  *)
(* commands of the model.  A command is one of Tokens, or an original      *)
(* command followed by answers (the clarification fallback).  Profile      *)
(* lists, in the order in which _determine_intent_with_confidence tries    *)
(* them, the patterns that match the lower-cased, stripped command, with   *)
(* the length of the match; ulen is the length of that command.            *)

Tokens ==
    {"open github.com", "open github", "open music video file", "google cats", "what is tla", "hello", "Yes ", "no", "once", "Search Google", "tell", "search wikipedia", " "}

\* the texts of the longer runs
HistoryTokens ==
    {"what is tla", "open github", "google cats", "Search Google", "Yes "}

\* the texts given to make_decision alone
ResolveTexts ==
    Tokens \cup {"what is the search video x", "search video cats", "latest news", "play a funny video", "set a reminder", "i am bored", "play music by queen", "learn about tla"}

IntentOrder ==
    <<"find_video", "play_music", "get_info", "open_website", "system_check", "launch_app", "search_web", "entertainment", "work_task", "file_management", "news_update", "social_media", "learning", "productivity", "communication", "shopping">>

KnowledgeBase ==
    [intent \in {IntentOrder[i] : i \in 1..Len(IntentOrder)} |->
        CASE intent = "find_video" ->
               [actions |-> <<"search_youtube", "check_local_videos">>, priority |-> <<"search_youtube">>,
                context_sensitive |-> TRUE, requires_topic |-> TRUE]
          [] intent = "play_music" ->
               [actions |-> <<"open_spotify", "search_youtube_music">>, priority |-> <<"open_spotify">>,
                context_sensitive |-> TRUE, requires_topic |-> FALSE]
          [] intent = "entertainment" ->
               [actions |-> <<"search_youtube", "open_netflix", "open_spotify">>, priority |-> <<"search_youtube">>,
                context_sensitive |-> TRUE, requires_topic |-> FALSE]
          [] intent = "get_info" ->
               [actions |-> <<"search_google", "search_wikipedia">>, priority |-> <<"search_google">>,
                context_sensitive |-> TRUE, requires_topic |-> TRUE]
          [] intent = "search_web" ->
               [actions |-> <<"search_google", "search_bing">>, priority |-> <<"search_google">>,
                context_sensitive |-> FALSE, requires_topic |-> TRUE]
          [] intent = "news_update" ->
               [actions |-> <<"search_google_news", "open_news_website">>, priority |-> <<"search_google_news">>,
                context_sensitive |-> TRUE, requires_topic |-> FALSE]
          [] intent = "open_website" ->
               [actions |-> <<"open_website">>, priority |-> <<"open_website">>,
                context_sensitive |-> FALSE, requires_topic |-> TRUE]
          [] intent = "social_media" ->
               [actions |-> <<"open_facebook", "open_twitter", "open_instagram">>, priority |-> <<"open_facebook">>,
                context_sensitive |-> TRUE, requires_topic |-> FALSE]
          [] intent = "system_check" ->
               [actions |-> <<"get_system_status", "check_performance">>, priority |-> <<"get_system_status">>,
                context_sensitive |-> FALSE, requires_topic |-> FALSE]
          [] intent = "launch_app" ->
               [actions |-> <<"open_application">>, priority |-> <<"open_application">>,
                context_sensitive |-> FALSE, requires_topic |-> TRUE]
          [] intent = "work_task" ->
               [actions |-> <<"open_notepad", "open_calculator">>, priority |-> <<"open_notepad">>,
                context_sensitive |-> TRUE, requires_topic |-> FALSE]
          [] intent = "file_management" ->
               [actions |-> <<"open_explorer", "search_files">>, priority |-> <<"open_explorer">>,
                context_sensitive |-> TRUE, requires_topic |-> FALSE]
          [] intent = "productivity" ->
               [actions |-> <<"open_calendar", "create_reminder">>, priority |-> <<"open_calendar">>,
                context_sensitive |-> TRUE, requires_topic |-> FALSE]
          [] intent = "learning" ->
               [actions |-> <<"search_educational_content", "find_tutorials">>, priority |-> <<"search_educational_content">>,
                context_sensitive |-> TRUE, requires_topic |-> TRUE]
          [] intent = "communication" ->
               [actions |-> <<"open_email", "open_messaging">>, priority |-> <<"open_email">>,
                context_sensitive |-> TRUE, requires_topic |-> FALSE]
          [] intent = "shopping" ->
               [actions |-> <<"search_products", "open_shopping_site">>, priority |-> <<"search_products">>,
                context_sensitive |-> TRUE, requires_topic |-> TRUE]]

Profile(cmd) ==
    CASE cmd = "open github.com" ->
           [ulen |-> 15, hits |-> <<[intent |-> "open_website", tier |-> "medium", mlen |-> 15, entities |-> <<[key |-> "primary_entity", value |-> "github.com"]>>],
              [intent |-> "open_website", tier |-> "low", mlen |-> 15, entities |-> <<>>],
              [intent |-> "launch_app", tier |-> "medium", mlen |-> 11, entities |-> <<[key |-> "primary_entity", value |-> "github"]>>],
              [intent |-> "launch_app", tier |-> "low", mlen |-> 4, entities |-> <<>>]>>]
      [] cmd = "open github" ->
           [ulen |-> 11, hits |-> <<[intent |-> "launch_app", tier |-> "medium", mlen |-> 11, entities |-> <<[key |-> "primary_entity", value |-> "github"]>>],
              [intent |-> "launch_app", tier |-> "low", mlen |-> 4, entities |-> <<>>]>>]
      [] cmd = "open music video file" ->
           [ulen |-> 21, hits |-> <<[intent |-> "find_video", tier |-> "medium", mlen |-> 10, entities |-> <<[key |-> "primary_entity", value |-> "e"]>>],
              [intent |-> "find_video", tier |-> "low", mlen |-> 5, entities |-> <<>>],
              [intent |-> "play_music", tier |-> "low", mlen |-> 5, entities |-> <<>>],
              [intent |-> "launch_app", tier |-> "medium", mlen |-> 10, entities |-> <<[key |-> "primary_entity", value |-> "music"]>>],
              [intent |-> "launch_app", tier |-> "low", mlen |-> 4, entities |-> <<>>],
              [intent |-> "file_management", tier |-> "low", mlen |-> 4, entities |-> <<>>]>>]
      [] cmd = "google cats" ->
           [ulen |-> 11, hits |-> <<[intent |-> "search_web", tier |-> "medium", mlen |-> 11, entities |-> <<[key |-> "primary_entity", value |-> "s"]>>],
              [intent |-> "search_web", tier |-> "low", mlen |-> 6, entities |-> <<>>]>>]
      [] cmd = "what is tla" ->
           [ulen |-> 11, hits |-> <<[intent |-> "get_info", tier |-> "high", mlen |-> 11, entities |-> <<[key |-> "primary_entity", value |-> "tla"], [key |-> "location", value |-> "is tla"]>>],
              [intent |-> "get_info", tier |-> "medium", mlen |-> 11, entities |-> <<[key |-> "primary_entity", value |-> "a"], [key |-> "location", value |-> "is tla"]>>],
              [intent |-> "get_info", tier |-> "low", mlen |-> 4, entities |-> <<[key |-> "location", value |-> "is tla"]>>]>>]
      [] cmd = "hello" ->
           [ulen |-> 5, hits |-> <<>>]
      [] cmd = "Yes " ->
           [ulen |-> 3, hits |-> <<>>]
      [] cmd = "no" ->
           [ulen |-> 2, hits |-> <<>>]
      [] cmd = "once" ->
           [ulen |-> 4, hits |-> <<>>]
      [] cmd = "Search Google" ->
           [ulen |-> 13, hits |-> <<[intent |-> "search_web", tier |-> "medium", mlen |-> 13, entities |-> <<[key |-> "primary_entity", value |-> "e"]>>],
              [intent |-> "search_web", tier |-> "low", mlen |-> 6, entities |-> <<>>],
              [intent |-> "search_web", tier |-> "low", mlen |-> 6, entities |-> <<>>]>>]
      [] cmd = "tell" ->
           [ulen |-> 4, hits |-> <<[intent |-> "get_info", tier |-> "low", mlen |-> 4, entities |-> <<>>]>>]
      [] cmd = "search wikipedia" ->
           [ulen |-> 16, hits |-> <<[intent |-> "search_web", tier |-> "medium", mlen |-> 16, entities |-> <<[key |-> "primary_entity", value |-> "a"]>>],
              [intent |-> "search_web", tier |-> "low", mlen |-> 6, entities |-> <<>>]>>]
      [] cmd = " " ->
           [ulen |-> 0, hits |-> <<>>]
      [] cmd = "google cats Search Google" ->
           [ulen |-> 25, hits |-> <<[intent |-> "search_web", tier |-> "medium", mlen |-> 25, entities |-> <<[key |-> "primary_entity", value |-> "e"]>>],
              [intent |-> "search_web", tier |-> "medium", mlen |-> 13, entities |-> <<[key |-> "primary_entity", value |-> "e"]>>],
              [intent |-> "search_web", tier |-> "low", mlen |-> 6, entities |-> <<>>],
              [intent |-> "search_web", tier |-> "low", mlen |-> 6, entities |-> <<>>]>>]
      [] cmd = "Search Google Search Google" ->
           [ulen |-> 27, hits |-> <<[intent |-> "search_web", tier |-> "high", mlen |-> 27, entities |-> <<[key |-> "primary_entity", value |-> "e"]>>],
              [intent |-> "search_web", tier |-> "medium", mlen |-> 20, entities |-> <<[key |-> "primary_entity", value |-> "e"]>>],
              [intent |-> "search_web", tier |-> "medium", mlen |-> 27, entities |-> <<[key |-> "primary_entity", value |-> "e"]>>],
              [intent |-> "search_web", tier |-> "low", mlen |-> 6, entities |-> <<>>],
              [intent |-> "search_web", tier |-> "low", mlen |-> 6, entities |-> <<>>]>>]
      [] cmd = "tell Search Google" ->
           [ulen |-> 18, hits |-> <<[intent |-> "get_info", tier |-> "low", mlen |-> 4, entities |-> <<>>],
              [intent |-> "search_web", tier |-> "medium", mlen |-> 13, entities |-> <<[key |-> "primary_entity", value |-> "e"]>>],
              [intent |-> "search_web", tier |-> "low", mlen |-> 6, entities |-> <<>>],
              [intent |-> "search_web", tier |-> "low", mlen |-> 6, entities |-> <<>>]>>]
      [] cmd = "tell search wikipedia" ->
           [ulen |-> 21, hits |-> <<[intent |-> "get_info", tier |-> "low", mlen |-> 4, entities |-> <<>>],
              [intent |-> "search_web", tier |-> "medium", mlen |-> 16, entities |-> <<[key |-> "primary_entity", value |-> "a"]>>],
              [intent |-> "search_web", tier |-> "low", mlen |-> 6, entities |-> <<>>]>>]
      [] cmd = "search wikipedia Search Google" ->
           [ulen |-> 30, hits |-> <<[intent |-> "search_web", tier |-> "medium", mlen |-> 30, entities |-> <<[key |-> "primary_entity", value |-> "e"]>>],
              [intent |-> "search_web", tier |-> "low", mlen |-> 6, entities |-> <<>>],
              [intent |-> "search_web", tier |-> "low", mlen |-> 6, entities |-> <<>>]>>]
      [] cmd = "google cats Search Google Search Google" ->
           [ulen |-> 39, hits |-> <<[intent |-> "search_web", tier |-> "high", mlen |-> 27, entities |-> <<[key |-> "primary_entity", value |-> "e"]>>],
              [intent |-> "search_web", tier |-> "medium", mlen |-> 39, entities |-> <<[key |-> "primary_entity", value |-> "e"]>>],
              [intent |-> "search_web", tier |-> "medium", mlen |-> 27, entities |-> <<[key |-> "primary_entity", value |-> "e"]>>],
              [intent |-> "search_web", tier |-> "low", mlen |-> 6, entities |-> <<>>],
              [intent |-> "search_web", tier |-> "low", mlen |-> 6, entities |-> <<>>]>>]
      [] cmd = "Search Google Search Google Search Google" ->
           [ulen |-> 41, hits |-> <<[intent |-> "search_web", tier |-> "high", mlen |-> 41, entities |-> <<[key |-> "primary_entity", value |-> "e"]>>],
              [intent |-> "search_web", tier |-> "medium", mlen |-> 34, entities |-> <<[key |-> "primary_entity", value |-> "e"]>>],
              [intent |-> "search_web", tier |-> "medium", mlen |-> 41, entities |-> <<[key |-> "primary_entity", value |-> "e"]>>],
              [intent |-> "search_web", tier |-> "low", mlen |-> 6, entities |-> <<>>],
              [intent |-> "search_web", tier |-> "low", mlen |-> 6, entities |-> <<>>]>>]
      [] cmd = "tell Search Google Search Google" ->
           [ulen |-> 32, hits |-> <<[intent |-> "get_info", tier |-> "low", mlen |-> 4, entities |-> <<>>],
              [intent |-> "search_web", tier |-> "high", mlen |-> 27, entities |-> <<[key |-> "primary_entity", value |-> "e"]>>],
              [intent |-> "search_web", tier |-> "medium", mlen |-> 20, entities |-> <<[key |-> "primary_entity", value |-> "e"]>>],
              [intent |-> "search_web", tier |-> "medium", mlen |-> 27, entities |-> <<[key |-> "primary_entity", value |-> "e"]>>],
              [intent |-> "search_web", tier |-> "low", mlen |-> 6, entities |-> <<>>],
              [intent |-> "search_web", tier |-> "low", mlen |-> 6, entities |-> <<>>]>>]
      [] cmd = "tell Search Google search wikipedia" ->
           [ulen |-> 35, hits |-> <<[intent |-> "get_info", tier |-> "low", mlen |-> 4, entities |-> <<>>],
              [intent |-> "search_web", tier |-> "high", mlen |-> 30, entities |-> <<[key |-> "primary_entity", value |-> "a"]>>],
              [intent |-> "search_web", tier |-> "medium", mlen |-> 23, entities |-> <<[key |-> "primary_entity", value |-> "a"]>>],
              [intent |-> "search_web", tier |-> "medium", mlen |-> 30, entities |-> <<[key |-> "primary_entity", value |-> "a"]>>],
              [intent |-> "search_web", tier |-> "low", mlen |-> 6, entities |-> <<>>],
              [intent |-> "search_web", tier |-> "low", mlen |-> 6, entities |-> <<>>]>>]
      [] cmd = "tell search wikipedia Search Google" ->
           [ulen |-> 35, hits |-> <<[intent |-> "get_info", tier |-> "low", mlen |-> 4, entities |-> <<>>],
              [intent |-> "search_web", tier |-> "medium", mlen |-> 30, entities |-> <<[key |-> "primary_entity", value |-> "e"]>>],
              [intent |-> "search_web", tier |-> "low", mlen |-> 6, entities |-> <<>>],
              [intent |-> "search_web", tier |-> "low", mlen |-> 6, entities |-> <<>>]>>]
      [] cmd = "tell search wikipedia search wikipedia" ->
           [ulen |-> 38, hits |-> <<[intent |-> "get_info", tier |-> "low", mlen |-> 4, entities |-> <<>>],
              [intent |-> "search_web", tier |-> "medium", mlen |-> 33, entities |-> <<[key |-> "primary_entity", value |-> "a"]>>],
              [intent |-> "search_web", tier |-> "low", mlen |-> 6, entities |-> <<>>]>>]
      [] cmd = "search wikipedia Search Google Search Google" ->
           [ulen |-> 44, hits |-> <<[intent |-> "search_web", tier |-> "high", mlen |-> 44, entities |-> <<[key |-> "primary_entity", value |-> "e"]>>],
              [intent |-> "search_web", tier |-> "medium", mlen |-> 20, entities |-> <<[key |-> "primary_entity", value |-> "e"]>>],
              [intent |-> "search_web", tier |-> "medium", mlen |-> 44, entities |-> <<[key |-> "primary_entity", value |-> "e"]>>],
              [intent |-> "search_web", tier |-> "low", mlen |-> 6, entities |-> <<>>],
              [intent |-> "search_web", tier |-> "low", mlen |-> 6, entities |-> <<>>]>>]
      [] cmd = "google cats Search Google Search Google Search Google" ->
           [ulen |-> 53, hits |-> <<[intent |-> "search_web", tier |-> "high", mlen |-> 41, entities |-> <<[key |-> "primary_entity", value |-> "e"]>>],
              [intent |-> "search_web", tier |-> "medium", mlen |-> 53, entities |-> <<[key |-> "primary_entity", value |-> "e"]>>],
              [intent |-> "search_web", tier |-> "medium", mlen |-> 41, entities |-> <<[key |-> "primary_entity", value |-> "e"]>>],
              [intent |-> "search_web", tier |-> "low", mlen |-> 6, entities |-> <<>>],
              [intent |-> "search_web", tier |-> "low", mlen |-> 6, entities |-> <<>>]>>]
      [] cmd = "Search Google Search Google Search Google Search Google" ->
           [ulen |-> 55, hits |-> <<[intent |-> "search_web", tier |-> "high", mlen |-> 55, entities |-> <<[key |-> "primary_entity", value |-> "e"]>>],
              [intent |-> "search_web", tier |-> "medium", mlen |-> 48, entities |-> <<[key |-> "primary_entity", value |-> "e"]>>],
              [intent |-> "search_web", tier |-> "medium", mlen |-> 55, entities |-> <<[key |-> "primary_entity", value |-> "e"]>>],
              [intent |-> "search_web", tier |-> "low", mlen |-> 6, entities |-> <<>>],
              [intent |-> "search_web", tier |-> "low", mlen |-> 6, entities |-> <<>>]>>]
      [] cmd = "tell Search Google Search Google Search Google" ->
           [ulen |-> 46, hits |-> <<[intent |-> "get_info", tier |-> "low", mlen |-> 4, entities |-> <<>>],
              [intent |-> "search_web", tier |-> "high", mlen |-> 41, entities |-> <<[key |-> "primary_entity", value |-> "e"]>>],
              [intent |-> "search_web", tier |-> "medium", mlen |-> 34, entities |-> <<[key |-> "primary_entity", value |-> "e"]>>],
              [intent |-> "search_web", tier |-> "medium", mlen |-> 41, entities |-> <<[key |-> "primary_entity", value |-> "e"]>>],
              [intent |-> "search_web", tier |-> "low", mlen |-> 6, entities |-> <<>>],
              [intent |-> "search_web", tier |-> "low", mlen |-> 6, entities |-> <<>>]>>]
      [] cmd = "tell Search Google Search Google search wikipedia" ->
           [ulen |-> 49, hits |-> <<[intent |-> "get_info", tier |-> "low", mlen |-> 4, entities |-> <<>>],
              [intent |-> "search_web", tier |-> "high", mlen |-> 44, entities |-> <<[key |-> "primary_entity", value |-> "a"]>>],
              [intent |-> "search_web", tier |-> "medium", mlen |-> 37, entities |-> <<[key |-> "primary_entity", value |-> "a"]>>],
              [intent |-> "search_web", tier |-> "medium", mlen |-> 44, entities |-> <<[key |-> "primary_entity", value |-> "a"]>>],
              [intent |-> "search_web", tier |-> "low", mlen |-> 6, entities |-> <<>>],
              [intent |-> "search_web", tier |-> "low", mlen |-> 6, entities |-> <<>>]>>]
      [] cmd = "tell Search Google search wikipedia Search Google" ->
           [ulen |-> 49, hits |-> <<[intent |-> "get_info", tier |-> "low", mlen |-> 4, entities |-> <<>>],
              [intent |-> "search_web", tier |-> "high", mlen |-> 44, entities |-> <<[key |-> "primary_entity", value |-> "e"]>>],
              [intent |-> "search_web", tier |-> "medium", mlen |-> 37, entities |-> <<[key |-> "primary_entity", value |-> "e"]>>],
              [intent |-> "search_web", tier |-> "medium", mlen |-> 44, entities |-> <<[key |-> "primary_entity", value |-> "e"]>>],
              [intent |-> "search_web", tier |-> "low", mlen |-> 6, entities |-> <<>>],
              [intent |-> "search_web", tier |-> "low", mlen |-> 6, entities |-> <<>>]>>]
      [] cmd = "tell Search Google search wikipedia search wikipedia" ->
           [ulen |-> 52, hits |-> <<[intent |-> "get_info", tier |-> "low", mlen |-> 4, entities |-> <<>>],
              [intent |-> "search_web", tier |-> "high", mlen |-> 47, entities |-> <<[key |-> "primary_entity", value |-> "a"]>>],
              [intent |-> "search_web", tier |-> "medium", mlen |-> 40, entities |-> <<[key |-> "primary_entity", value |-> "a"]>>],
              [intent |-> "search_web", tier |-> "medium", mlen |-> 47, entities |-> <<[key |-> "primary_entity", value |-> "a"]>>],
              [intent |-> "search_web", tier |-> "low", mlen |-> 6, entities |-> <<>>],
              [intent |-> "search_web", tier |-> "low", mlen |-> 6, entities |-> <<>>]>>]
      [] cmd = "tell search wikipedia Search Google Search Google" ->
           [ulen |-> 49, hits |-> <<[intent |-> "get_info", tier |-> "low", mlen |-> 4, entities |-> <<>>],
              [intent |-> "search_web", tier |-> "high", mlen |-> 44, entities |-> <<[key |-> "primary_entity", value |-> "e"]>>],
              [intent |-> "search_web", tier |-> "medium", mlen |-> 20, entities |-> <<[key |-> "primary_entity", value |-> "e"]>>],
              [intent |-> "search_web", tier |-> "medium", mlen |-> 44, entities |-> <<[key |-> "primary_entity", value |-> "e"]>>],
              [intent |-> "search_web", tier |-> "low", mlen |-> 6, entities |-> <<>>],
              [intent |-> "search_web", tier |-> "low", mlen |-> 6, entities |-> <<>>]>>]
      [] cmd = "tell search wikipedia Search Google search wikipedia" ->
           [ulen |-> 52, hits |-> <<[intent |-> "get_info", tier |-> "low", mlen |-> 4, entities |-> <<>>],
              [intent |-> "search_web", tier |-> "high", mlen |-> 47, entities |-> <<[key |-> "primary_entity", value |-> "a"]>>],
              [intent |-> "search_web", tier |-> "medium", mlen |-> 23, entities |-> <<[key |-> "primary_entity", value |-> "a"]>>],
              [intent |-> "search_web", tier |-> "medium", mlen |-> 47, entities |-> <<[key |-> "primary_entity", value |-> "a"]>>],
              [intent |-> "search_web", tier |-> "low", mlen |-> 6, entities |-> <<>>],
              [intent |-> "search_web", tier |-> "low", mlen |-> 6, entities |-> <<>>]>>]
      [] cmd = "tell search wikipedia search wikipedia Search Google" ->
           [ulen |-> 52, hits |-> <<[intent |-> "get_info", tier |-> "low", mlen |-> 4, entities |-> <<>>],
              [intent |-> "search_web", tier |-> "medium", mlen |-> 47, entities |-> <<[key |-> "primary_entity", value |-> "e"]>>],
              [intent |-> "search_web", tier |-> "low", mlen |-> 6, entities |-> <<>>],
              [intent |-> "search_web", tier |-> "low", mlen |-> 6, entities |-> <<>>]>>]
      [] cmd = "tell search wikipedia search wikipedia search wikipedia" ->
           [ulen |-> 55, hits |-> <<[intent |-> "get_info", tier |-> "low", mlen |-> 4, entities |-> <<>>],
              [intent |-> "search_web", tier |-> "medium", mlen |-> 50, entities |-> <<[key |-> "primary_entity", value |-> "a"]>>],
              [intent |-> "search_web", tier |-> "low", mlen |-> 6, entities |-> <<>>]>>]
      [] cmd = "search wikipedia Search Google Search Google Search Google" ->
           [ulen |-> 58, hits |-> <<[intent |-> "search_web", tier |-> "high", mlen |-> 58, entities |-> <<[key |-> "primary_entity", value |-> "e"]>>],
              [intent |-> "search_web", tier |-> "medium", mlen |-> 34, entities |-> <<[key |-> "primary_entity", value |-> "e"]>>],
              [intent |-> "search_web", tier |-> "medium", mlen |-> 58, entities |-> <<[key |-> "primary_entity", value |-> "e"]>>],
              [intent |-> "search_web", tier |-> "low", mlen |-> 6, entities |-> <<>>],
              [intent |-> "search_web", tier |-> "low", mlen |-> 6, entities |-> <<>>]>>]
      [] cmd = "google cats Search Google Search Google Search Google Search Google" ->
           [ulen |-> 67, hits |-> <<[intent |-> "search_web", tier |-> "high", mlen |-> 55, entities |-> <<[key |-> "primary_entity", value |-> "e"]>>],
              [intent |-> "search_web", tier |-> "medium", mlen |-> 67, entities |-> <<[key |-> "primary_entity", value |-> "e"]>>],
              [intent |-> "search_web", tier |-> "medium", mlen |-> 55, entities |-> <<[key |-> "primary_entity", value |-> "e"]>>],
              [intent |-> "search_web", tier |-> "low", mlen |-> 6, entities |-> <<>>],
              [intent |-> "search_web", tier |-> "low", mlen |-> 6, entities |-> <<>>]>>]
      [] cmd = "Search Google Search Google Search Google Search Google Search Google" ->
           [ulen |-> 69, hits |-> <<[intent |-> "search_web", tier |-> "high", mlen |-> 69, entities |-> <<[key |-> "primary_entity", value |-> "e"]>>],
              [intent |-> "search_web", tier |-> "medium", mlen |-> 62, entities |-> <<[key |-> "primary_entity", value |-> "e"]>>],
              [intent |-> "search_web", tier |-> "medium", mlen |-> 69, entities |-> <<[key |-> "primary_entity", value |-> "e"]>>],
              [intent |-> "search_web", tier |-> "low", mlen |-> 6, entities |-> <<>>],
              [intent |-> "search_web", tier |-> "low", mlen |-> 6, entities |-> <<>>]>>]
      [] cmd = "google cats Search Google Search Google Search Google Search Google Search Google" ->
           [ulen |-> 81, hits |-> <<[intent |-> "search_web", tier |-> "high", mlen |-> 69, entities |-> <<[key |-> "primary_entity", value |-> "e"]>>],
              [intent |-> "search_web", tier |-> "medium", mlen |-> 81, entities |-> <<[key |-> "primary_entity", value |-> "e"]>>],
              [intent |-> "search_web", tier |-> "medium", mlen |-> 69, entities |-> <<[key |-> "primary_entity", value |-> "e"]>>],
              [intent |-> "search_web", tier |-> "low", mlen |-> 6, entities |-> <<>>],
              [intent |-> "search_web", tier |-> "low", mlen |-> 6, entities |-> <<>>]>>]
      [] cmd = "Search Google Search Google Search Google Search Google Search Google Search Google" ->
           [ulen |-> 83, hits |-> <<[intent |-> "search_web", tier |-> "high", mlen |-> 83, entities |-> <<[key |-> "primary_entity", value |-> "e"]>>],
              [intent |-> "search_web", tier |-> "medium", mlen |-> 76, entities |-> <<[key |-> "primary_entity", value |-> "e"]>>],
              [intent |-> "search_web", tier |-> "medium", mlen |-> 83, entities |-> <<[key |-> "primary_entity", value |-> "e"]>>],
              [intent |-> "search_web", tier |-> "low", mlen |-> 6, entities |-> <<>>],
              [intent |-> "search_web", tier |-> "low", mlen |-> 6, entities |-> <<>>]>>]
      [] cmd = "google cats Search Google Search Google Search Google Search Google Search Google Search Google" ->
           [ulen |-> 95, hits |-> <<[intent |-> "search_web", tier |-> "high", mlen |-> 83, entities |-> <<[key |-> "primary_entity", value |-> "e"]>>],
              [intent |-> "search_web", tier |-> "medium", mlen |-> 95, entities |-> <<[key |-> "primary_entity", value |-> "e"]>>],
              [intent |-> "search_web", tier |-> "medium", mlen |-> 83, entities |-> <<[key |-> "primary_entity", value |-> "e"]>>],
              [intent |-> "search_web", tier |-> "low", mlen |-> 6, entities |-> <<>>],
              [intent |-> "search_web", tier |-> "low", mlen |-> 6, entities |-> <<>>]>>]
      [] cmd = "Search Google Search Google Search Google Search Google Search Google Search Google Search Google" ->
           [ulen |-> 97, hits |-> <<[intent |-> "search_web", tier |-> "high", mlen |-> 97, entities |-> <<[key |-> "primary_entity", value |-> "e"]>>],
              [intent |-> "search_web", tier |-> "medium", mlen |-> 90, entities |-> <<[key |-> "primary_entity", value |-> "e"]>>],
              [intent |-> "search_web", tier |-> "medium", mlen |-> 97, entities |-> <<[key |-> "primary_entity", value |-> "e"]>>],
              [intent |-> "search_web", tier |-> "low", mlen |-> 6, entities |-> <<>>],
              [intent |-> "search_web", tier |-> "low", mlen |-> 6, entities |-> <<>>]>>]
      [] cmd = "what is the search video x" ->
           [ulen |-> 26, hits |-> <<[intent |-> "find_video", tier |-> "high", mlen |-> 14, entities |-> <<[key |-> "primary_entity", value |-> "x"], [key |-> "location", value |-> "is the search video"]>>],
              [intent |-> "find_video", tier |-> "medium", mlen |-> 7, entities |-> <<[key |-> "primary_entity", value |-> "x"], [key |-> "location", value |-> "is the search video"]>>],
              [intent |-> "find_video", tier |-> "low", mlen |-> 5, entities |-> <<[key |-> "location", value |-> "is the search video"]>>],
              [intent |-> "get_info", tier |-> "high", mlen |-> 26, entities |-> <<[key |-> "primary_entity", value |-> "the search video x"], [key |-> "location", value |-> "is the search video"]>>],
              [intent |-> "get_info", tier |-> "medium", mlen |-> 26, entities |-> <<[key |-> "primary_entity", value |-> "x"], [key |-> "location", value |-> "is the search video"]>>],
              [intent |-> "get_info", tier |-> "low", mlen |-> 4, entities |-> <<[key |-> "location", value |-> "is the search video"]>>],
              [intent |-> "search_web", tier |-> "medium", mlen |-> 14, entities |-> <<[key |-> "primary_entity", value |-> "x"], [key |-> "location", value |-> "is the search video"]>>],
              [intent |-> "search_web", tier |-> "low", mlen |-> 6, entities |-> <<[key |-> "location", value |-> "is the search video"]>>]>>]
      [] cmd = "search video cats" ->
           [ulen |-> 17, hits |-> <<[intent |-> "find_video", tier |-> "high", mlen |-> 17, entities |-> <<[key |-> "primary_entity", value |-> "s"]>>],
              [intent |-> "find_video", tier |-> "medium", mlen |-> 10, entities |-> <<[key |-> "primary_entity", value |-> "s"]>>],
              [intent |-> "find_video", tier |-> "low", mlen |-> 5, entities |-> <<>>],
              [intent |-> "search_web", tier |-> "medium", mlen |-> 17, entities |-> <<[key |-> "primary_entity", value |-> "s"]>>],
              [intent |-> "search_web", tier |-> "low", mlen |-> 6, entities |-> <<>>]>>]
      [] cmd = "latest news" ->
           [ulen |-> 11, hits |-> <<[intent |-> "news_update", tier |-> "medium", mlen |-> 11, entities |-> <<>>],
              [intent |-> "news_update", tier |-> "low", mlen |-> 4, entities |-> <<>>]>>]
      [] cmd = "play a funny video" ->
           [ulen |-> 18, hits |-> <<[intent |-> "find_video", tier |-> "low", mlen |-> 5, entities |-> <<>>],
              [intent |-> "play_music", tier |-> "low", mlen |-> 4, entities |-> <<>>],
              [intent |-> "entertainment", tier |-> "low", mlen |-> 3, entities |-> <<>>]>>]
      [] cmd = "set a reminder" ->
           [ulen |-> 14, hits |-> <<[intent |-> "productivity", tier |-> "low", mlen |-> 8, entities |-> <<>>]>>]
      [] cmd = "i am bored" ->
           [ulen |-> 10, hits |-> <<[intent |-> "entertainment", tier |-> "high", mlen |-> 10, entities |-> <<>>],
              [intent |-> "entertainment", tier |-> "medium", mlen |-> 5, entities |-> <<>>]>>]
      [] cmd = "play music by queen" ->
           [ulen |-> 19, hits |-> <<[intent |-> "play_music", tier |-> "high", mlen |-> 19, entities |-> <<[key |-> "primary_entity", value |-> "queen"]>>],
              [intent |-> "play_music", tier |-> "medium", mlen |-> 10, entities |-> <<>>],
              [intent |-> "play_music", tier |-> "low", mlen |-> 5, entities |-> <<>>],
              [intent |-> "play_music", tier |-> "low", mlen |-> 4, entities |-> <<>>]>>]
      [] cmd = "learn about tla" ->
           [ulen |-> 15, hits |-> <<[intent |-> "get_info", tier |-> "medium", mlen |-> 9, entities |-> <<[key |-> "primary_entity", value |-> "a"]>>],
              [intent |-> "learning", tier |-> "high", mlen |-> 15, entities |-> <<[key |-> "primary_entity", value |-> "tla"]>>],
              [intent |-> "learning", tier |-> "medium", mlen |-> 15, entities |-> <<[key |-> "primary_entity", value |-> "a"]>>],
              [intent |-> "learning", tier |-> "low", mlen |-> 5, entities |-> <<>>]>>]

ExtractUrl(cmd) ==
    CASE cmd = "open github.com" -> "github.com"
      [] OTHER -> cmd

\* the arguments of the calls made to the security brain alone
SecurityArguments ==
    {"github.com", "https://www.github.com/zia", "example.org", "not a domain", ""}

\* not url or not url.strip()
BlankUrls ==
    {""}

StripUrl(url) ==
    CASE url = "github.com" -> "github.com"
      [] url = "https://www.github.com/zia" -> "https://www.github.com/zia"
      [] url = "example.org" -> "example.org"
      [] url = "not a domain" -> "not a domain"
      [] url = "" -> ""

ExtractDomain(url) ==
    CASE url = "github.com" -> "github.com"
      [] url = "open github" -> "open github"
      [] url = "open music video file" -> "open music video file"
      [] url = "google cats" -> "google cats"
      [] url = "what is tla" -> "what is tla"
      [] url = "hello" -> "hello"
      [] url = "Yes " -> "yes "
      [] url = "yes " -> "yes "
      [] url = "no" -> "no"
      [] url = "once" -> "once"
      [] url = "Search Google" -> "search google"
      [] url = "search google" -> "search google"
      [] url = "tell" -> "tell"
      [] url = "search wikipedia" -> "search wikipedia"
      [] url = " " -> " "
      [] url = "google cats Search Google" -> "google cats search google"
      [] url = "google cats search google" -> "google cats search google"
      [] url = "Search Google Search Google" -> "search google search google"
      [] url = "search google search google" -> "search google search google"
      [] url = "tell Search Google" -> "tell search google"
      [] url = "tell search google" -> "tell search google"
      [] url = "tell search wikipedia" -> "tell search wikipedia"
      [] url = "search wikipedia Search Google" -> "search wikipedia search google"
      [] url = "search wikipedia search google" -> "search wikipedia search google"
      [] url = "google cats Search Google Search Google" -> "google cats search google search google"
      [] url = "google cats search google search google" -> "google cats search google search google"
      [] url = "Search Google Search Google Search Google" -> "search google search google search google"
      [] url = "search google search google search google" -> "search google search google search google"
      [] url = "tell Search Google Search Google" -> "tell search google search google"
      [] url = "tell search google search google" -> "tell search google search google"
      [] url = "tell Search Google search wikipedia" -> "tell search google search wikipedia"
      [] url = "tell search google search wikipedia" -> "tell search google search wikipedia"
      [] url = "tell search wikipedia Search Google" -> "tell search wikipedia search google"
      [] url = "tell search wikipedia search google" -> "tell search wikipedia search google"
      [] url = "tell search wikipedia search wikipedia" -> "tell search wikipedia search wikipedia"
      [] url = "search wikipedia Search Google Search Google" -> "search wikipedia search google search google"
      [] url = "search wikipedia search google search google" -> "search wikipedia search google search google"
      [] url = "google cats Search Google Search Google Search Google" -> "google cats search google search google search google"
      [] url = "google cats search google search google search google" -> "google cats search google search google search google"
      [] url = "Search Google Search Google Search Google Search Google" -> "search google search google search google search google"
      [] url = "search google search google search google search google" -> "search google search google search google search google"
      [] url = "tell Search Google Search Google Search Google" -> "tell search google search google search google"
      [] url = "tell search google search google search google" -> "tell search google search google search google"
      [] url = "tell Search Google Search Google search wikipedia" -> "tell search google search google search wikipedia"
      [] url = "tell search google search google search wikipedia" -> "tell search google search google search wikipedia"
      [] url = "tell Search Google search wikipedia Search Google" -> "tell search google search wikipedia search google"
      [] url = "tell search google search wikipedia search google" -> "tell search google search wikipedia search google"
      [] url = "tell Search Google search wikipedia search wikipedia" -> "tell search google search wikipedia search wikipedia"
      [] url = "tell search google search wikipedia search wikipedia" -> "tell search google search wikipedia search wikipedia"
      [] url = "tell search wikipedia Search Google Search Google" -> "tell search wikipedia search google search google"
      [] url = "tell search wikipedia search google search google" -> "tell search wikipedia search google search google"
      [] url = "tell search wikipedia Search Google search wikipedia" -> "tell search wikipedia search google search wikipedia"
      [] url = "tell search wikipedia search google search wikipedia" -> "tell search wikipedia search google search wikipedia"
      [] url = "tell search wikipedia search wikipedia Search Google" -> "tell search wikipedia search wikipedia search google"
      [] url = "tell search wikipedia search wikipedia search google" -> "tell search wikipedia search wikipedia search google"
      [] url = "tell search wikipedia search wikipedia search wikipedia" -> "tell search wikipedia search wikipedia search wikipedia"
      [] url = "search wikipedia Search Google Search Google Search Google" -> "search wikipedia search google search google search google"
      [] url = "search wikipedia search google search google search google" -> "search wikipedia search google search google search google"
      [] url = "google cats Search Google Search Google Search Google Search Google" -> "google cats search google search google search google search google"
      [] url = "google cats search google search google search google search google" -> "google cats search google search google search google search google"
      [] url = "Search Google Search Google Search Google Search Google Search Google" -> "search google search google search google search google search google"
      [] url = "search google search google search google search google search google" -> "search google search google search google search google search google"
      [] url = "google cats Search Google Search Google Search Google Search Google Search Google" -> "google cats search google search google search google search google search google"
      [] url = "google cats search google search google search google search google search google" -> "google cats search google search google search google search google search google"
      [] url = "Search Google Search Google Search Google Search Google Search Google Search Google" -> "search google search google search google search google search google search google"
      [] url = "search google search google search google search google search google search google" -> "search google search google search google search google search google search google"
      [] url = "google cats Search Google Search Google Search Google Search Google Search Google Search Google" -> "google cats search google search google search google search google search google search google"
      [] url = "google cats search google search google search google search google search google search google" -> "google cats search google search google search google search google search google search google"
      [] url = "Search Google Search Google Search Google Search Google Search Google Search Google Search Google" -> "search google search google search google search google search google search google search google"
      [] url = "search google search google search google search google search google search google search google" -> "search google search google search google search google search google search google search google"
      [] url = "what is the search video x" -> "what is the search video x"
      [] url = "search video cats" -> "search video cats"
      [] url = "latest news" -> "latest news"
      [] url = "play a funny video" -> "play a funny video"
      [] url = "set a reminder" -> "set a reminder"
      [] url = "i am bored" -> "i am bored"
      [] url = "play music by queen" -> "play music by queen"
      [] url = "learn about tla" -> "learn about tla"
      [] url = "https://www.github.com/zia" -> "github.com"
      [] url = "example.org" -> "example.org"
      [] url = "not a domain" -> "not a domain"
      [] url = "" -> ""

ValidDomains ==
    {"github.com", "hello", "no", "once", "tell", "example.org"}

ConversationalCommands ==
    {"hello"}

LowerStrip(text) ==
    CASE text = "open github.com" -> "open github.com"
      [] text = "open github" -> "open github"
      [] text = "open music video file" -> "open music video file"
      [] text = "google cats" -> "google cats"
      [] text = "what is tla" -> "what is tla"
      [] text = "hello" -> "hello"
      [] text = "Yes " -> "yes"
      [] text = "no" -> "no"
      [] text = "once" -> "once"
      [] text = "Search Google" -> "search google"
      [] text = "tell" -> "tell"
      [] text = "search wikipedia" -> "search wikipedia"
      [] text = " " -> ""

NamedActions(response) ==
    CASE response = "open github.com" -> {}
      [] response = "open github" -> {}
      [] response = "open music video file" -> {}
      [] response = "google cats" -> {}
      [] response = "what is tla" -> {}
      [] response = "hello" -> {}
      [] response = "Yes " -> {}
      [] response = "no" -> {}
      [] response = "once" -> {}
      [] response = "Search Google" -> {"search_google"}
      [] response = "tell" -> {}
      [] response = "search wikipedia" -> {"search_wikipedia"}
      [] response = " " -> {}

BlankCommands ==
    {" "}


Concat(original_command, user_response) == original_command \o " " \o user_response

\* the texts of the runs with two threads
ConcTokens == {"open github.com", "google cats", "Yes ", "Search Google"}

\* variant: no text counts as blank
IsBlank_Never(text) == FALSE

\* not command or not command.strip()
IsBlank(text) == text \in BlankCommands

\* variant: every domain passes validation
IsValidDomain_Any(domain) == TRUE

IsValidDomain(domain) == domain \in ValidDomains

Intents == {IntentOrder[i] : i \in 1..Len(IntentOrder)}

-----------------------------------------------------------------------------
(* DecisionBrain: intent resolution *)

Min(a, b) == IF a < b THEN a ELSE b

BaseConfidence(tier) ==
    CASE tier = "high" -> 900000
      [] tier = "medium" -> 600000
      [] tier = "low" -> 300000

\* base + 0.1 when the match is the whole command + 0.1 * match ratio
PatternConfidence(hit, ulen) ==
    BaseConfidence(hit.tier)
      + (IF hit.mlen = ulen THEN 100000 ELSE 0)
      + (hit.mlen * 100000) \div ulen

\* variant: the scores of the matching patterns are added up
RECURSIVE ScanPatterns_Accumulates(_, _, _)
ScanPatterns_Accumulates(hits, ulen, best_confidence) ==
    IF hits = <<>> THEN best_confidence
    ELSE ScanPatterns_Accumulates(Tail(hits), ulen,
                                  best_confidence + PatternConfidence(Head(hits), ulen))

\* the loop over the tiers and patterns of one intent: a later pattern
\* replaces the best one only when it scores strictly higher
RECURSIVE ScanPatterns(_, _, _)
ScanPatterns(hits, ulen, best_confidence) ==
    IF hits = <<>> THEN best_confidence
    ELSE LET pattern_confidence == PatternConfidence(Head(hits), ulen)
         IN  ScanPatterns(Tail(hits), ulen,
                          IF pattern_confidence > best_confidence
                          THEN pattern_confidence ELSE best_confidence)

BestConfidence(intent, profile) ==
    ScanPatterns(SelectSeq(profile.hits, LAMBDA h : h.intent = intent), profile.ulen, 0)

\* the same loop, for the entities kept with the best pattern
RECURSIVE ScanEntities(_, _, _, _)
ScanEntities(hits, ulen, best_confidence, best_entities) ==
    IF hits = <<>> THEN best_entities
    ELSE LET pattern_confidence == PatternConfidence(Head(hits), ulen)
         IN  IF pattern_confidence > best_confidence
             THEN ScanEntities(Tail(hits), ulen, pattern_confidence, Head(hits).entities)
             ELSE ScanEntities(Tail(hits), ulen, best_confidence, best_entities)

BestEntities(intent, profile) ==
    ScanEntities(SelectSeq(profile.hits, LAMBDA h : h.intent = intent), profile.ulen, 0, <<>>)

\* variant: a match goes before the matches of its confidence
RECURSIVE InsertByConfidence_Before(_, _)
InsertByConfidence_Before(m, sorted) ==
    IF sorted = <<>> THEN <<m>>
    ELSE IF Head(sorted).confidence > m.confidence
         THEN <<Head(sorted)>> \o InsertByConfidence_Before(m, Tail(sorted))
         ELSE <<m>> \o sorted

\* list.sort(key=confidence, reverse=True): stable, equal keys keep their order
RECURSIVE InsertByConfidence(_, _)
InsertByConfidence(m, sorted) ==
    IF sorted = <<>> THEN <<m>>
    ELSE IF Head(sorted).confidence >= m.confidence
         THEN <<Head(sorted)>> \o InsertByConfidence(m, Tail(sorted))
         ELSE <<m>> \o sorted

RECURSIVE SortInto(_, _)
SortInto(matches, sorted) ==
    IF matches = <<>> THEN sorted
    ELSE SortInto(Tail(matches), InsertByConfidence(Head(matches), sorted))

\* variant: the list is left as it is
SortByConfidence_Unsorted(matches) == matches

SortByConfidence(matches) == SortInto(matches, <<>>)

\* variant: an intent none of whose patterns matched is listed too
RECURSIVE CollectMatches_All(_, _)
CollectMatches_All(intents, profile) ==
    IF intents = <<>> THEN <<>>
    ELSE <<[intent |-> Head(intents),
            confidence |-> Min(BestConfidence(Head(intents), profile), One),
            extracted_entities |-> BestEntities(Head(intents), profile)]>>
           \o CollectMatches_All(Tail(intents), profile)

RECURSIVE CollectMatches(_, _)
CollectMatches(intents, profile) ==
    IF intents = <<>> THEN <<>>
    ELSE LET best_confidence == BestConfidence(Head(intents), profile)
             rest == CollectMatches(Tail(intents), profile)
         IN  IF best_confidence > 0
             THEN <<[intent |-> Head(intents), confidence |-> Min(best_confidence, One),
                     extracted_entities |-> BestEntities(Head(intents), profile)]>> \o rest
             ELSE rest

RawMatches(cmd) == SortByConfidence(CollectMatches(IntentOrder, Profile(cmd)))

TimeBoosts(time_context) ==
    CASE time_context = "morning" -> {"news_update", "productivity"}
      [] time_context = "evening" -> {"entertainment", "find_video"}
      [] time_context = "night" -> {"entertainment", "play_music"}
      [] OTHER -> {}

\* variant: the intent of the last decision is held back
BoostLastIntent_Penalises(m, context) ==
    IF context.last_intent # NoIntent /\ m.intent = context.last_intent
    THEN [m EXCEPT !.confidence = @ - 100000] ELSE m

BoostLastIntent(m, context) ==
    IF context.last_intent # NoIntent /\ m.intent = context.last_intent
    THEN [m EXCEPT !.confidence = Min(One, @ + 100000)] ELSE m

\* variant: the time boost is not capped
BoostTime_Uncapped(m, context) ==
    IF m.intent \in TimeBoosts(context.time_of_day)
    THEN [m EXCEPT !.confidence = @ + 50000] ELSE m

BoostTime(m, context) ==
    IF m.intent \in TimeBoosts(context.time_of_day)
    THEN [m EXCEPT !.confidence = Min(One, @ + 50000)] ELSE m

ApplyContextBoosting(matches, context) ==
    SortByConfidence([i \in 1..Len(matches) |->
                         BoostTime(BoostLastIntent(matches[i], context), context)])

DetermineIntentWithConfidence(cmd, context) ==
    ApplyContextBoosting(RawMatches(cmd), context)

-----------------------------------------------------------------------------
(* DecisionBrain: action selection and decisions *)

\* variant: having no decision is a request for clarification
NoDecision_Asks ==
    [kind |-> "DecisionResult", success |-> FALSE, action |-> NoAction, confidence |-> 0,
     intent |-> NoIntent, clarification_needed |-> TRUE, alternatives |-> <<>>,
     automation_command |-> <<>>, parameters |-> <<>>]

\* return None
NoDecision ==
    [kind |-> "None", success |-> FALSE, action |-> NoAction, confidence |-> 0,
     intent |-> NoIntent, clarification_needed |-> FALSE, alternatives |-> <<>>,
     automation_command |-> <<>>, parameters |-> <<>>]

Failure == [NoDecision EXCEPT !.kind = "DecisionResult"]

ClarificationNeeded(intent, confidence, alternatives) ==
    [kind |-> "DecisionResult", success |-> FALSE, action |-> NoAction,
     confidence |-> confidence, intent |-> intent,
     clarification_needed |-> TRUE, alternatives |-> alternatives,
     automation_command |-> <<>>, parameters |-> <<>>]

\* a dict, in insertion order
HasKey(dict, key) == \E i \in 1..Len(dict) : dict[i].key = key

GetItem(dict, key, default) ==
    IF HasKey(dict, key)
    THEN dict[CHOOSE i \in 1..Len(dict) : dict[i].key = key].value
    ELSE default

SetItem(dict, key, value) ==
    IF HasKey(dict, key)
    THEN [i \in 1..Len(dict) |->
             IF dict[i].key = key THEN [key |-> key, value |-> value] ELSE dict[i]]
    ELSE Append(dict, [key |-> key, value |-> value])

\* the parameter the primary entity is also stored as
ParameterOf(intent) ==
    CASE intent \in {"find_video", "get_info", "search_web", "learning"} -> "topic"
      [] intent = "play_music" -> "music_query"
      [] intent = "open_website" -> "url"
      [] intent = "launch_app" -> "application"
      [] OTHER -> "primary_entity"

ExtractEnhancedParameters(intent_match) ==
    LET parameters == intent_match.extracted_entities
    IN  IF HasKey(parameters, "primary_entity")
        THEN SetItem(parameters, ParameterOf(intent_match.intent),
                     GetItem(parameters, "primary_entity", ""))
        ELSE parameters

\* the automation command, as the parts the f-string puts together
MapActionToAutomationEnhanced(action, parameters) ==
    CASE action = "search_youtube" ->
           <<"search youtube for ", GetItem(parameters, "topic", "videos")>>
      [] action = "search_youtube_music" ->
           <<"search youtube for ", GetItem(parameters, "music_query", "music"), " music">>
      [] action = "open_spotify" -> <<"open spotify.com">>
      [] action = "search_google" ->
           <<"search for ", GetItem(parameters, "topic", "information")>>
      [] action = "open_website" -> <<"open ", GetItem(parameters, "url", "google.com")>>
      [] action = "open_application" ->
           <<"open ", GetItem(parameters, "application", "notepad")>>
      [] OTHER -> <<action>>

Resolved(intent, confidence, action, parameters) ==
    [kind |-> "DecisionResult", success |-> TRUE, action |-> action,
     confidence |-> confidence, intent |-> intent,
     clarification_needed |-> FALSE, alternatives |-> <<>>,
     automation_command |-> MapActionToAutomationEnhanced(action, parameters),
     parameters |-> parameters]

InSeq(x, s) == \E i \in 1..Len(s) : s[i] = x

\* Counter.most_common(1): the first key, in insertion order, with the highest count
MostCommon(counter) ==
    LET i == CHOOSE k \in 1..Len(counter) :
                 /\ \A j \in 1..Len(counter) : counter[j].count <= counter[k].count
                 /\ \A j \in 1..(k - 1) : counter[j].count < counter[k].count
    IN  counter[i].key

\* variant: an intent without an entry is given itself as its one action
IntentConfig_Named(kb, intent) ==
    IF intent \in DOMAIN kb /\ kb[intent].actions # <<>> THEN kb[intent]
    ELSE [actions |-> <<intent>>, priority |-> <<intent>>,
          context_sensitive |-> FALSE, requires_topic |-> FALSE]

\* self.knowledge_base.get(intent, {}), read with .get("actions", []) and
\* .get("context_sensitive")
IntentConfig(kb, intent) ==
    IF intent \in DOMAIN kb THEN kb[intent]
    ELSE [actions |-> <<>>, priority |-> <<>>,
          context_sensitive |-> FALSE, requires_topic |-> FALSE]

SelectBestAction(kb, intent, preferences) ==
    LET intent_config == IntentConfig(kb, intent)
        best_action == intent_config.priority[1]
    IN  IF preferences[intent] # <<>> /\ InSeq(MostCommon(preferences[intent]), intent_config.actions)
        THEN MostCommon(preferences[intent])
        ELSE best_action

\* variant: an entry with one action counts as having several
SeveralActions_Always(possible_actions) == TRUE

\* if len(possible_actions) > 1
SeveralActions(possible_actions) == Len(possible_actions) > 1

\* variant: every entry is taken as context sensitive
ContextSensitive_Always(intent_config) == TRUE

\* if intent_config.get("context_sensitive")
ContextSensitive(intent_config) == intent_config.context_sensitive

\* variant: every candidate is listed
TopAlternatives_All(matches) ==
    [i \in 1..Len(matches) |-> matches[i].intent]

TopAlternatives(matches) ==
    [i \in 1..Min(max_alternatives, Len(matches)) |-> matches[i].intent]

BelowThreshold(confidence) == confidence < confidence_threshold

\* the locked body of make_decision, as a function of what it reads
MakeDecision(kb, cmd, context, preferences) ==
    LET matches == DetermineIntentWithConfidence(cmd, context)
    IN  IF matches = <<>> THEN NoDecision
        ELSE LET best_match == matches[1]
                 intent == best_match.intent
                 confidence == best_match.confidence
                 intent_config == IntentConfig(kb, intent)
                 possible_actions == intent_config.actions
             IN  IF BelowThreshold(confidence)
                 THEN ClarificationNeeded(intent, confidence, TopAlternatives(matches))
                 ELSE IF possible_actions = <<>> THEN NoDecision
                 ELSE IF SeveralActions(possible_actions) /\ ~ContextSensitive(intent_config)
                 THEN ClarificationNeeded(intent, confidence, possible_actions)
                 ELSE Resolved(intent, confidence,
                               IF SeveralActions(possible_actions)
                               THEN SelectBestAction(kb, intent, preferences)
                               ELSE possible_actions[1],
                               ExtractEnhancedParameters(best_match))

\* variant: the newest entry is the one given up
UpdateConversationHistory_KeepsOldest(history, cmd, intent, action) ==
    IF Len(history) >= context_window THEN history
    ELSE Append(history, [command |-> cmd, intent |-> intent, action |-> action])

UpdateConversationHistory(history, cmd, intent, action) ==
    LET appended == Append(history, [command |-> cmd, intent |-> intent, action |-> action])
    IN  IF Len(appended) > context_window THEN Tail(appended) ELSE appended

Increment(counter, key) ==
    IF \E i \in 1..Len(counter) : counter[i].key = key
    THEN [i \in 1..Len(counter) |->
             IF counter[i].key = key THEN [counter[i] EXCEPT !.count = @ + 1] ELSE counter[i]]
    ELSE Append(counter, [key |-> key, count |-> 1])

\* variant: the switch is not looked at
LearnFromInteraction_Regardless(enabled, preferences, cmd, intent, success) ==
    IF success /\ intent # NoIntent
    THEN [preferences EXCEPT ![intent] = Increment(@, cmd)]
    ELSE preferences

\* enabled is self.learning_enabled
LearnFromInteraction(enabled, preferences, cmd, intent, success) ==
    IF enabled /\ success /\ intent # NoIntent
    THEN [preferences EXCEPT ![intent] = Increment(@, cmd)]
    ELSE preferences

\* variant: bookkeeping for every decision that names an intent
DecisionSucceeded_Named(result) == result.intent # NoIntent

\* the history and the counters are updated on the path that returns success
DecisionSucceeded(result) == result.success

\* "I didn't understand that choice"
NotUnderstood == [Failure EXCEPT !.clarification_needed = TRUE]

\* the first action of the best intent whose name, with spaces, is in the answer
MatchedActions(possible_actions, clarification_response) ==
    SelectSeq(possible_actions, LAMBDA a : a \in NamedActions(clarification_response))

HandleClarificationResponse(kb, original_command, clarification_response, context) ==
    LET matches == DetermineIntentWithConfidence(original_command, context)
    IN  IF matches = <<>> THEN NoDecision
        ELSE LET best_match == matches[1]
                 matched == MatchedActions(IntentConfig(kb, best_match.intent).actions,
                                           clarification_response)
             IN  IF matched # <<>>
                 THEN Resolved(best_match.intent, best_match.confidence, matched[1],
                               ExtractEnhancedParameters(best_match))
                 ELSE NotUnderstood

-----------------------------------------------------------------------------
(* SecurityBrain: the permission lists *)


\* variant: the domain stays on the blocklist
AddToTrusted_KeepsBlocked(lists, domain) ==
    LET clean_domain == ExtractDomain(domain)
    IN  IF ~IsValidDomain(clean_domain) THEN lists
        ELSE [lists EXCEPT !.trusted = @ \cup {clean_domain},
                           !.one_time = @ \ {clean_domain}]

AddToTrusted(lists, domain) ==
    LET clean_domain == ExtractDomain(domain)
    IN  IF ~IsValidDomain(clean_domain) THEN lists
        ELSE [trusted |-> lists.trusted \cup {clean_domain},
              blocked |-> lists.blocked \ {clean_domain},
              one_time |-> lists.one_time \ {clean_domain}]

\* variant: the domain goes to the trusted list
AddToBlocked_Trusts(lists, domain) == AddToTrusted(lists, domain)

AddToBlocked(lists, domain) ==
    LET clean_domain == ExtractDomain(domain)
    IN  IF ~IsValidDomain(clean_domain) THEN lists
        ELSE [trusted |-> lists.trusted \ {clean_domain},
              blocked |-> lists.blocked \cup {clean_domain},
              one_time |-> lists.one_time \ {clean_domain}]

AddToOneTime(lists, domain) ==
    LET clean_domain == ExtractDomain(domain)
    IN  IF ~IsValidDomain(clean_domain) THEN lists
        ELSE [lists EXCEPT !.one_time = @ \cup {clean_domain}]

\* what add_to_trusted, add_to_blocked and add_to_one_time return
AddReturns(domain) ==
    IF IsValidDomain(ExtractDomain(domain)) THEN "True" ELSE "False"

RemoveFromTrusted(lists, domain) ==
    [lists EXCEPT !.trusted = @ \ {ExtractDomain(domain)}]

RemoveFromBlocked(lists, domain) ==
    [lists EXCEPT !.blocked = @ \ {ExtractDomain(domain)}]

\* what remove_from_trusted and remove_from_blocked return
RemoveReturns(list, domain) ==
    IF ExtractDomain(domain) \in list THEN "True" ELSE "False"

ClearOneTimeSessions(lists) == [lists EXCEPT !.one_time = {}]

\* variant: a one-time session is looked for before the blocklist
CheckWebsiteAccess_OneTimeFirst(lists, url) ==
    IF url \in BlankUrls THEN "DENIED"
    ELSE LET domain == ExtractDomain(StripUrl(url))
         IN  IF ~IsValidDomain(domain) THEN "DENIED"
             ELSE IF domain \in lists.one_time THEN "ALLOWED"
             ELSE IF domain \in lists.blocked THEN "DENIED"
             ELSE IF domain \in lists.trusted THEN "ALLOWED"
             ELSE "ASK_USER"

\* check_website_access: blocklist, trusted list, one-time sessions, ask
CheckWebsiteAccess(lists, url) ==
    IF url \in BlankUrls THEN "DENIED"
    ELSE LET domain == ExtractDomain(StripUrl(url))
         IN  IF ~IsValidDomain(domain) THEN "DENIED"
             ELSE IF domain \in lists.blocked THEN "DENIED"
             ELSE IF domain \in lists.trusted THEN "ALLOWED"
             ELSE IF domain \in lists.one_time THEN "ALLOWED"
             ELSE "ASK_USER"

\* the check that is answered from the one-time sessions counts the use
UsesOneTime(lists, url) ==
    /\ url \notin BlankUrls
    /\ LET domain == ExtractDomain(StripUrl(url))
       IN  /\ IsValidDomain(domain)
           /\ domain \notin lists.blocked
           /\ domain \notin lists.trusted
           /\ domain \in lists.one_time

\* the keys session_usage can have
UsageDomains == ValidDomains \cup {ExtractDomain(StripUrl(url)) : url \in SecurityArguments}

SecurityCall(op, argument, result, count) ==
    [op |-> op, argument |-> argument, result |-> result, count |-> count]

NoCall == SecurityCall("none", "", "none", 0)

CurrentLists == [trusted |-> trusted_sites, blocked |-> blocked_sites, one_time |-> one_time_sessions]

-----------------------------------------------------------------------------
(* VitaCNS: classification of a security answer and routing *)

ClassifyAnswer(answer) ==
    IF answer \in {"yes", "y", "allow", "allow permanently", "permanently"} THEN "grant_permanent"
    ELSE IF answer \in {"no", "n", "block", "deny", "never"} THEN "deny_permanent"
    ELSE IF answer \in {"this time only", "once", "just once", "temporary", "temp"} THEN "grant_once"
    ELSE "unrecognized"

\* variant: the pending clarification is not looked at
Route_SecurityOnly(security_question, decision_clarification) ==
    IF security_question # None THEN "security" ELSE "fresh"

\* the if / elif / else of handle_command
Route(security_question, decision_clarification) ==
    IF security_question # None THEN "security"
    ELSE IF decision_clarification # None THEN "clarification"
    ELSE "fresh"

\* outcomes of AutomationBrain.execute_command as the coordinator tells them
\* apart: a text, a text starting with ASK_USER:, nothing, or an exception
ExecOutcomes == {"text", "ASK_USER", "none", "raised"}

\* outcomes of the call automation_brain._open_website(url)
OpenOutcomes == {"opened", "raised"}

SecurityQuestion(original_command) ==
    [url |-> ExtractUrl(original_command), original_command |-> original_command]

Result(success, requires_clarification, source_brain, response) ==
    [success |-> success, requires_clarification |-> requires_clarification,
     source_brain |-> source_brain, response |-> response]

NoResult == Result(FALSE, FALSE, "none", "none")

\* handle_command's except clause
UnexpectedError == Result(FALSE, FALSE, "CNS_Error_Handler", "unexpected")

-----------------------------------------------------------------------------
(* MemoryBrain.log_action *)

\* the entry is appended to the log file, or one of the steps up to there
\* raises
WriteOutcomes == {"written", "failed"}

\* variant: a failed write raises to the caller
LogAction_Propagates(outcome) == IF outcome = "failed" THEN "raised" ELSE "returned"

\* the exception of a failed write is caught, logged and printed
LogAction(outcome) == "returned"

NoTurn ==
    [security |-> None, clarification |-> None, lists |-> [trusted |-> {}, blocked |-> {}, one_time |-> {}],
     context |-> [last_intent |-> NoIntent, time_of_day |-> "afternoon"],
     history |-> <<>>, preferences |-> [intent \in Intents |-> <<>>], handler |-> "none", executor |-> <<>>, decided |-> <<>>, added |-> <<>>]

-----------------------------------------------------------------------------
(* Initial state: VitaCNS.__init__, DecisionBrain.__init__ and             *)
(* SecurityBrain.__init__.  The permission lists are the ones of the        *)
(* configuration (none by default); time_of_day is read from the clock     *)
(* once, at construction.                                                  *)

ConfiguredLists ==
    {[trusted |-> {}, blocked |-> {}, one_time |-> {}],
     [trusted |-> {"github.com"}, blocked |-> {}, one_time |-> {}],
     [trusted |-> {}, blocked |-> {"github.com"}, one_time |-> {}],
     [trusted |-> {}, blocked |-> {}, one_time |-> {"github.com"}]}

InitWith(knowledge_bases, last_intents, configurations) ==
    /\ pending_security_question = None
    /\ pending_decision_clarification = None
    /\ \E lists \in configurations :
           /\ trusted_sites = lists.trusted
           /\ blocked_sites = lists.blocked
           /\ one_time_sessions = lists.one_time
    /\ session_usage = [domain \in UsageDomains |-> 0]
    /\ security_call = NoCall
    /\ conversation_history = <<>>
    /\ \E bucket \in TimeBuckets, last_intent \in last_intents :
           session_context = [last_intent |-> last_intent, time_of_day |-> bucket]
    /\ user_preferences = [intent \in Intents |-> <<>>]
    /\ chosen = [intent \in Intents |-> <<>>]
    /\ knowledge_base \in knowledge_bases
    /\ decision_lock = NoThread
    /\ current_state = "WAKE_WORD"
    /\ pc = [t \in AllThreads |-> "idle"]
    /\ command = [t \in AllThreads |-> ""]
    /\ process_command = [t \in AllThreads |-> ""]
    /\ clarification_context = [t \in AllThreads |-> ""]
    /\ intent_matches = [t \in AllThreads |-> <<>>]
    /\ decision_result = [t \in AllThreads |-> NoDecision]
    /\ command_result = [t \in AllThreads |-> NoResult]
    /\ turn = [t \in AllThreads |-> NoTurn]
    /\ turns = 0

\* the knowledge base is the one of _setup_knowledge_base, and no intent
\* has been resolved yet
Init == InitWith({KnowledgeBase}, {NoIntent}, ConfiguredLists)

Goto(t, label) == pc' = [pc EXCEPT ![t] = label]

Return(t, result) ==
    /\ command_result' = [command_result EXCEPT ![t] = result]
    /\ Goto(t, "hc_return")

Invoked(t, site, outcome) ==
    [turn EXCEPT ![t].executor = Append(@, [site |-> site, outcome |-> outcome])]

-----------------------------------------------------------------------------
(* VitaCNS.handle_command *)

\* handle_command is entered with one of the given texts
Enter(t, texts) ==
    /\ \E text \in texts :
           command' = [command EXCEPT ![t] = text]
    /\ turn' = [turn EXCEPT ![t] =
                   [NoTurn EXCEPT !.security = pending_security_question,
                                  !.clarification = pending_decision_clarification,
                                  !.lists = CurrentLists,
                                  !.context = session_context,
                                  !.history = conversation_history,
                                  !.preferences = user_preferences]]
    /\ turns' = turns + 1
    /\ Goto(t, "hc_dispatch")
    /\ UNCHANGED <<brainVars, cnsVars, securityVars, contextVars, decision_lock,
                   process_command, clarification_context, intent_matches, decision_result, command_result>>

\* a caller that is not inside handle_command enters it
Call(t, texts) ==
    /\ pc[t] = "idle"
    /\ Enter(t, texts)

\* the text loop calls handle_command with the line it read
Receive(t) ==
    /\ turns < MaxTurns
    /\ Call(t, Tokens)

\* the text loop, over more calls
ReceiveHistory(t) ==
    /\ turns < MaxHistoryTurns
    /\ Call(t, HistoryTokens)

\* the text loop or the listener's command task calls handle_command
ReceiveConcurrent(t) ==
    /\ turns < MaxConcTurns
    /\ Call(t, ConcTokens)

\* the branch on the pending fields
Dispatch(t) ==
    /\ pc[t] = "hc_dispatch"
    /\ LET handler == Route(pending_security_question, pending_decision_clarification)
       IN  /\ turn' = [turn EXCEPT ![t].handler = handler]
           /\ CASE handler = "security" ->
                     /\ Goto(t, "sec_response")
                     /\ UNCHANGED process_command
                [] handler = "clarification" ->
                     /\ Goto(t, "clar_begin")
                     /\ UNCHANGED process_command
                [] handler = "fresh" ->
                     /\ Goto(t, "md_enter")
                     /\ process_command' = [process_command EXCEPT ![t] = command[t]]
    /\ UNCHANGED <<brainVars, cnsVars, securityVars, contextVars, decision_lock,
                   command, clarification_context, intent_matches, decision_result, command_result, turns>>

\* the end of handle_command: the result goes back to the caller
Finish(t) ==
    /\ pc[t] = "hc_return"
    /\ Goto(t, "idle")
    /\ UNCHANGED <<brainVars, cnsVars, securityVars, contextVars, decision_lock, localVars,
                   command_result, turn, turns>>

-----------------------------------------------------------------------------
(* VitaCNS._handle_security_response *)

ApplyAnswer(class, lists, domain) ==
    CASE class = "grant_permanent" -> AddToTrusted(lists, domain)
      [] class = "deny_permanent" -> AddToBlocked(lists, domain)
      [] class = "grant_once" -> AddToOneTime(lists, domain)
      [] OTHER -> lists

\* variant: an answer of no class is taken as settled
NextAfterAnswer_Settles(class) ==
    IF class \in {"grant_permanent", "grant_once"} THEN "sec_open" ELSE "sec_clear"

NextAfterAnswer(class) ==
    CASE class = "grant_permanent" -> "sec_open"
      [] class = "deny_permanent" -> "sec_clear"
      [] class = "grant_once" -> "sec_open"
      [] OTHER -> "hc_return"

\* the answer is classified and the list of its class is updated; an answer
\* of no class returns the re-prompt at once.  When the question is gone
\* (another thread cleared it), subscripting None raises and the handler of
\* the exception clears the field and returns.
SecurityResponse(t) ==
    /\ pc[t] = "sec_response"
    /\ IF pending_security_question = None
       THEN /\ Goto(t, "sec_clear")
            /\ command_result' = [command_result EXCEPT ![t] =
                                     Result(TRUE, FALSE, "SecurityBrain", "trouble")]
            /\ UNCHANGED <<securityVars, turn>>
       ELSE LET security_context == pending_security_question[1]
                domain == ExtractDomain(security_context.url)
                class == ClassifyAnswer(LowerStrip(command[t]))
                lists == ApplyAnswer(class, CurrentLists, domain)
            IN  /\ trusted_sites' = lists.trusted
                /\ blocked_sites' = lists.blocked
                /\ one_time_sessions' = lists.one_time
                /\ turn' = IF class = "unrecognized" THEN turn
                           ELSE [turn EXCEPT ![t].added =
                                    Append(@, [list |-> class, domain |-> domain])]
                /\ command_result' = [command_result EXCEPT ![t] =
                       Result(TRUE, FALSE, "SecurityBrain",
                              IF class = "unrecognized" THEN "reprompt" ELSE class)]
                /\ Goto(t, NextAfterAnswer(class))
    /\ UNCHANGED <<brainVars, cnsVars, contextVars, decision_lock, localVars, turns>>

\* a grant opens the site
SecurityOpen(t) ==
    /\ pc[t] = "sec_open"
    /\ \E outcome \in OpenOutcomes :
           /\ turn' = Invoked(t, "open_website", outcome)
           /\ command_result' =
                  IF outcome = "raised"
                  THEN [command_result EXCEPT ![t] = Result(TRUE, FALSE, "SecurityBrain", "trouble")]
                  ELSE command_result
    /\ Goto(t, "sec_clear")
    /\ UNCHANGED <<brainVars, cnsVars, securityVars, contextVars, decision_lock, localVars, turns>>

\* the question is cleared, after a decision and after an exception alike
SecurityClear(t) ==
    /\ pc[t] = "sec_clear"
    /\ pending_security_question' = None
    /\ Goto(t, "hc_return")
    /\ UNCHANGED <<brainVars, pending_decision_clarification, securityVars, contextVars, decision_lock,
                   localVars, command_result, turn, turns>>

-----------------------------------------------------------------------------
(* VitaCNS._handle_decision_clarification *)

\* variant: the pending clarification is read but left in place
TakeClarification_Keeps(pending) ==
    [original_command |-> pending[1].original_command, pending |-> pending]

\* the context is read and the field is set to None
TakeClarification(pending) ==
    [original_command |-> pending[1].original_command, pending |-> None]

\* the pending clarification is read and cleared; when it is gone
\* (another thread cleared it), subscripting None raises
ClarificationBegin(t) ==
    /\ pc[t] = "clar_begin"
    /\ IF pending_decision_clarification = None
       THEN /\ Return(t, Result(FALSE, FALSE, "CNS_Error_Handler", "trouble"))
            /\ UNCHANGED <<pending_decision_clarification, clarification_context>>
       ELSE LET taken == TakeClarification(pending_decision_clarification)
            IN  /\ clarification_context' = [clarification_context EXCEPT ![t] =
                       taken.original_command]
                /\ pending_decision_clarification' = taken.pending
                /\ Goto(t, "clar_resolve")
                /\ UNCHANGED command_result
    /\ UNCHANGED <<brainVars, pending_security_question, securityVars, contextVars, decision_lock,
                   command, process_command, intent_matches, decision_result, turn, turns>>

\* variant: the answer is stored as the command to clarify
Reasked_Answer(original_command, user_response, result) ==
    [original_command |-> user_response, decision_result |-> result]

\* the clarification is stored again, for the same command
Reasked(original_command, user_response, result) ==
    [original_command |-> original_command, decision_result |-> result]

\* decision_brain.handle_clarification_response and the branch on its result
ClarificationResolve(t) ==
    /\ pc[t] = "clar_resolve"
    /\ LET original_command == clarification_context[t]
           result == HandleClarificationResponse(knowledge_base, original_command, command[t],
                                                 session_context)
       IN  /\ decision_result' = [decision_result EXCEPT ![t] = result]
           /\ user_preferences' =
                  LearnFromInteraction(learning_enabled, user_preferences, original_command,
                                       result.intent, result.success)
           /\ chosen' = IF result.success
                        THEN [chosen EXCEPT ![result.intent] = Increment(@, result.action)]
                        ELSE chosen
           /\ IF result.kind = "DecisionResult" /\ result.success
              THEN /\ Goto(t, "clar_exec")
                   /\ UNCHANGED <<pending_decision_clarification, command_result, process_command>>
              ELSE IF result.kind = "DecisionResult" /\ result.clarification_needed
              THEN /\ pending_decision_clarification' =
                          Some(Reasked(original_command, command[t], result))
                   /\ Return(t, Result(FALSE, TRUE, "DecisionBrain", "clarify"))
                   /\ UNCHANGED process_command
              ELSE /\ process_command' = [process_command EXCEPT ![t] =
                          Concat(original_command, command[t])]
                   /\ Goto(t, "md_enter")
                   /\ UNCHANGED <<pending_decision_clarification, command_result>>
    /\ UNCHANGED <<brainVars, pending_security_question, securityVars, conversation_history, session_context,
                   decision_lock, command, clarification_context, intent_matches, turn, turns>>

\* the resolved action is dispatched; without a response the original
\* command and the answer are processed together as a new command; an
\* exception of the Executor ends the handler with its error result
ClarificationExecute(t) ==
    /\ pc[t] = "clar_exec"
    /\ \E outcome \in ExecOutcomes :
           /\ turn' = Invoked(t, "clarification", outcome)
           /\ IF outcome = "raised"
              THEN /\ Return(t, Result(FALSE, FALSE, "CNS_Error_Handler", "trouble"))
                   /\ UNCHANGED process_command
              ELSE IF outcome # "none"
              THEN /\ Return(t, Result(TRUE, FALSE, "DecisionBrain->AutomationBrain", outcome))
                   /\ UNCHANGED process_command
              ELSE /\ process_command' = [process_command EXCEPT ![t] =
                          Concat(clarification_context[t], command[t])]
                   /\ Goto(t, "md_enter")
                   /\ UNCHANGED command_result
    /\ UNCHANGED <<brainVars, cnsVars, securityVars, contextVars, decision_lock,
                   command, clarification_context, intent_matches, decision_result, turns>>

-----------------------------------------------------------------------------
(* DecisionBrain.make_decision *)

\* the test made before the lock is taken
MakeDecisionEnter(t) ==
    /\ pc[t] = "md_enter"
    /\ turn' = [turn EXCEPT ![t].decided =
                   Append(@, [command |-> process_command[t],
                              pending |-> (pending_security_question # None
                                           \/ pending_decision_clarification # None)])]
    /\ IF IsBlank(process_command[t])
       THEN /\ decision_result' = [decision_result EXCEPT ![t] = Failure]
            /\ Goto(t, "pce_route")
       ELSE /\ Goto(t, "md_lock")
            /\ UNCHANGED decision_result
    /\ UNCHANGED <<brainVars, cnsVars, securityVars, contextVars, decision_lock,
                   command, process_command, clarification_context, intent_matches, command_result, turns>>

\* variant: the lock does not exclude
LockIsFree_Always == TRUE

LockIsFree == decision_lock = NoThread

\* with self._decision_lock: blocks until the lock is free
MakeDecisionLock(t) ==
    /\ pc[t] = "md_lock"
    /\ LockIsFree
    /\ decision_lock' = t
    /\ Goto(t, "md_body")
    /\ UNCHANGED <<brainVars, cnsVars, securityVars, contextVars, localVars, command_result, turn, turns>>

\* the locked body: resolution, selection, history and learning
MakeDecisionBody(t) ==
    /\ pc[t] = "md_body"
    /\ LET cmd == process_command[t]
           result == MakeDecision(knowledge_base, cmd, session_context, user_preferences)
       IN  /\ intent_matches' = [intent_matches EXCEPT ![t] =
                                    DetermineIntentWithConfidence(cmd, session_context)]
           /\ decision_result' = [decision_result EXCEPT ![t] = result]
           /\ IF DecisionSucceeded(result)
              THEN /\ conversation_history' =
                          UpdateConversationHistory(conversation_history, cmd, result.intent, result.action)
                   /\ session_context' = [session_context EXCEPT !.last_intent = result.intent]
                   /\ user_preferences' =
                          LearnFromInteraction(learning_enabled, user_preferences, cmd, result.intent, TRUE)
                   /\ chosen' = [chosen EXCEPT ![result.intent] = Increment(@, result.action)]
              ELSE UNCHANGED contextVars
    /\ Goto(t, "md_unlock")
    /\ UNCHANGED <<brainVars, cnsVars, securityVars, decision_lock,
                   command, process_command, clarification_context, command_result, turn, turns>>

\* variant: the lock stays with the thread that took it
LockReleased_Held(t) == t

\* the owner of the lock once the with statement has been left
LockReleased(t) == NoThread

\* leaving the with block releases the lock
MakeDecisionUnlock(t) ==
    /\ pc[t] = "md_unlock"
    /\ decision_lock' = LockReleased(t)
    /\ Goto(t, "pce_route")
    /\ UNCHANGED <<brainVars, cnsVars, securityVars, contextVars, localVars, command_result, turn, turns>>

-----------------------------------------------------------------------------
(* VitaCNS._process_command_enhanced and _handle_security_question *)

\* the branch on the decision: dispatch, ask for clarification, or go on
\* to the other brains
ProcessDecision(t) ==
    /\ pc[t] = "pce_route"
    /\ LET result == decision_result[t]
       IN  IF result.kind = "DecisionResult" /\ result.success
           THEN /\ Goto(t, "pce_exec")
                /\ UNCHANGED <<pending_decision_clarification, command_result>>
           ELSE IF result.kind = "DecisionResult" /\ result.clarification_needed
           THEN /\ pending_decision_clarification' =
                       Some([original_command |-> process_command[t], decision_result |-> result])
                /\ Return(t, Result(FALSE, TRUE, "DecisionBrain", "clarify"))
           ELSE /\ Goto(t, "pce_response")
                /\ UNCHANGED <<pending_decision_clarification, command_result>>
    /\ UNCHANGED <<brainVars, pending_security_question, securityVars, contextVars, decision_lock,
                   localVars, turn, turns>>

\* variant: the sentinel is not recognized
AsksUser_Never(outcome) == FALSE

AsksUser(outcome) == outcome = "ASK_USER"

\* what _process_command_enhanced does with an outcome of the Executor
AfterExecution(t, outcome, source_brain) ==
    IF AsksUser(outcome)
    THEN /\ pending_security_question' = Some(SecurityQuestion(process_command[t]))
         /\ Return(t, Result(FALSE, TRUE, "SecurityBrain", "ask"))
    ELSE /\ UNCHANGED pending_security_question
         /\ Return(t, Result(TRUE, FALSE, source_brain, outcome))

\* variant: an exception of the Executor ends the turn with the error result
AfterRaise_Returns(t) == Return(t, Result(FALSE, FALSE, "CNS_Error_Handler", "trouble"))

\* the exception is logged and the method goes on to the other brains
AfterRaise(t) ==
    /\ Goto(t, "pce_response")
    /\ UNCHANGED command_result

\* the decided action is dispatched to the Executor
ProcessExecute(t) ==
    /\ pc[t] = "pce_exec"
    /\ \E outcome \in ExecOutcomes :
           /\ turn' = Invoked(t, "decision", outcome)
           /\ IF outcome = "raised"
              THEN /\ AfterRaise(t)
                   /\ UNCHANGED pending_security_question
              ELSE AfterExecution(t, outcome, "DecisionBrain->AutomationBrain")
    /\ UNCHANGED <<brainVars, pending_decision_clarification, securityVars, contextVars, decision_lock,
                   localVars, turns>>

\* without a decision the response brain is asked
ProcessResponse(t) ==
    /\ pc[t] = "pce_response"
    /\ IF process_command[t] \in ConversationalCommands
       THEN Return(t, Result(TRUE, FALSE, "ResponseBrain", "text"))
       ELSE /\ Goto(t, "pce_auto")
            /\ UNCHANGED command_result
    /\ UNCHANGED <<brainVars, cnsVars, securityVars, contextVars, decision_lock, localVars, turn, turns>>

\* and then the Executor, with the raw command; without a response, or
\* with an exception, the fallback result is returned
ProcessAutomation(t) ==
    /\ pc[t] = "pce_auto"
    /\ \E outcome \in ExecOutcomes :
           /\ turn' = Invoked(t, "command", outcome)
           /\ IF outcome \in {"none", "raised"}
              THEN /\ Return(t, Result(FALSE, FALSE, "CNS_Fallback", "rephrase"))
                   /\ UNCHANGED pending_security_question
              ELSE AfterExecution(t, outcome, "AutomationBrain")
    /\ UNCHANGED <<brainVars, pending_decision_clarification, securityVars, contextVars, decision_lock,
                   localVars, turns>>

-----------------------------------------------------------------------------
(* Specifications *)

\* the steps of a thread inside handle_command
Steps(t) ==
    \/ Dispatch(t)
    \/ SecurityResponse(t)
    \/ SecurityOpen(t)
    \/ SecurityClear(t)
    \/ ClarificationBegin(t)
    \/ ClarificationResolve(t)
    \/ ClarificationExecute(t)
    \/ MakeDecisionEnter(t)
    \/ MakeDecisionLock(t)
    \/ MakeDecisionBody(t)
    \/ MakeDecisionUnlock(t)
    \/ ProcessDecision(t)
    \/ ProcessExecute(t)
    \/ ProcessResponse(t)
    \/ ProcessAutomation(t)

Handle(t) == Steps(t) \/ Finish(t)

\* the text loop alone: calls are issued one at a time
Next == \E t \in TextThreads : Receive(t) \/ Handle(t)

Spec == Init /\ [][Next]_vars

\* the text loop and the listener's command task
NextConc == \E t \in Threads : ReceiveConcurrent(t) \/ Handle(t)

SpecConc == Init /\ [][NextConc]_vars

\* the text loop alone, for more calls over fewer commands
NextHistory == \E t \in TextThreads : ReceiveHistory(t) \/ Handle(t)

\* the permission lists of the default configuration: none
InitDefault ==
    /\ Init
    /\ CurrentLists = [trusted |-> {}, blocked |-> {}, one_time |-> {}]

SpecHistory == InitDefault /\ [][NextHistory]_vars


-----------------------------------------------------------------------------
(* DecisionBrain.make_decision alone *)

\* a knowledge base without the entry of one intent and with an entry
\* without actions: the cases that the reads with .get provide for
SparseKnowledgeBase ==
    [intent \in Intents \ {"launch_app"} |->
        IF intent = "get_info" THEN [KnowledgeBase[intent] EXCEPT !.actions = <<>>]
        ELSE KnowledgeBase[intent]]

KnowledgeBases == {KnowledgeBase, SparseKnowledgeBase}

\* every session context, each knowledge base, no permission lists
InitResolve ==
    /\ InitWith(KnowledgeBases, Intents \cup {NoIntent},
                {[trusted |-> {}, blocked |-> {}, one_time |-> {}]})

\* make_decision is called with a text
ResolveCall(t) ==
    /\ turns < MaxResolveCalls
    /\ pc[t] = "idle"
    /\ \E text \in ResolveTexts :
           process_command' = [process_command EXCEPT ![t] = text]
    /\ turn' = [turn EXCEPT ![t] =
                   [NoTurn EXCEPT !.context = session_context,
                                  !.history = conversation_history,
                                  !.preferences = user_preferences]]
    /\ turns' = turns + 1
    /\ Goto(t, "md_enter")
    /\ UNCHANGED <<brainVars, cnsVars, securityVars, contextVars, decision_lock,
                   command, clarification_context, intent_matches, decision_result,
                   command_result>>

\* its result is with the caller
ResolveReturn(t) ==
    /\ pc[t] = "pce_route"
    /\ Goto(t, "idle")
    /\ UNCHANGED <<brainVars, cnsVars, securityVars, contextVars, decision_lock, localVars,
                   command_result, turn, turns>>

NextResolve ==
    \E t \in TextThreads :
        \/ ResolveCall(t)
        \/ MakeDecisionEnter(t)
        \/ MakeDecisionLock(t)
        \/ MakeDecisionBody(t)
        \/ MakeDecisionUnlock(t)
        \/ ResolveReturn(t)

SpecResolve == InitResolve /\ [][NextResolve]_vars

-----------------------------------------------------------------------------
(* ListeningBrain: the wake word and the command task.  The task is the    *)
(* thread "listener": lb_start is its beginning, before the try statement, *)
(* lb_listen the loop, lb_timeout and lb_except the two ways out of the    *)
(* loop without a command, lb_finally the finally clause.                  *)

\* the texts the command recognizer yields
ListenTokens == ConcTokens

\* variant: a wake word starts a task in any state
ListeningForWakeWord_Always == TRUE

\* if self.current_state == self.STATE_WAKE_WORD
ListeningForWakeWord == current_state = "WAKE_WORD"

\* _handle_wake_word: the state is switched and the task is started
HandleWakeWord(t) ==
    /\ pc[t] = "idle"
    /\ ListeningForWakeWord
    /\ current_state' = "COMMAND"
    /\ Goto(t, "lb_start")
    /\ UNCHANGED <<fixedVars, cnsVars, securityVars, contextVars, decision_lock, localVars,
                   command_result, turn, turns>>

\* vosk.KaldiRecognizer(model, sample_rate) returns a recognizer or raises
RecognizerOutcomes == {"created", "raised"}

\* the command recognizer is made before the try statement is entered: an
\* exception here ends the thread
ListenStart(t) ==
    /\ pc[t] = "lb_start"
    /\ \E outcome \in RecognizerOutcomes :
           Goto(t, IF outcome = "created" THEN "lb_listen" ELSE "idle")
    /\ UNCHANGED <<brainVars, cnsVars, securityVars, contextVars, decision_lock, localVars,
                   command_result, turn, turns>>

\* a command is recognized within the time allowed: handle_command is called
ListenCommand(t) ==
    /\ pc[t] = "lb_listen"
    /\ turns < MaxListenTurns
    /\ Enter(t, ListenTokens)

\* the loop ends with the time allowed
ListenTimeout(t) ==
    /\ pc[t] = "lb_listen"
    /\ Goto(t, "lb_timeout")
    /\ UNCHANGED <<brainVars, cnsVars, securityVars, contextVars, decision_lock, localVars,
                   command_result, turn, turns>>

\* the audio stream or the recognizer raises inside the try statement
ListenError(t) ==
    /\ pc[t] = "lb_listen"
    /\ Goto(t, "lb_except")
    /\ UNCHANGED <<brainVars, cnsVars, securityVars, contextVars, decision_lock, localVars,
                   command_result, turn, turns>>

\* handle_command returns into the task, which returns
ListenReturn(t) ==
    /\ pc[t] = "hc_return"
    /\ Goto(t, "lb_finally")
    /\ UNCHANGED <<brainVars, cnsVars, securityVars, contextVars, decision_lock, localVars,
                   command_result, turn, turns>>

\* finally: _configure_for_wake_word
ConfigureForWakeWord(t) ==
    /\ pc[t] \in {"lb_timeout", "lb_except", "lb_finally"}
    /\ current_state' = "WAKE_WORD"
    /\ Goto(t, "idle")
    /\ UNCHANGED <<fixedVars, cnsVars, securityVars, contextVars, decision_lock, localVars,
                   command_result, turn, turns>>

NextListen ==
    \E t \in ListenerThreads :
        \/ HandleWakeWord(t)
        \/ ListenStart(t)
        \/ ListenCommand(t)
        \/ ListenTimeout(t)
        \/ ListenError(t)
        \/ Steps(t)
        \/ ListenReturn(t)
        \/ ConfigureForWakeWord(t)

SpecListen == InitDefault /\ [][NextListen]_vars

-----------------------------------------------------------------------------
(* SecurityBrain alone: its methods are called with the given arguments *)

\* the domains of the configured lists
SecurityDomains == {"github.com", "example.org"}

\* configurations whose trusted and blocked lists are disjoint
SecurityConfigurations ==
    {lists \in [trusted : SUBSET SecurityDomains, blocked : SUBSET SecurityDomains,
                one_time : SUBSET SecurityDomains] :
        lists.trusted \cap lists.blocked = {}}

InitSecurity ==
    /\ InitWith({KnowledgeBase}, {NoIntent}, SecurityConfigurations)
    /\ session_context.time_of_day = "afternoon"

SetLists(lists) ==
    /\ trusted_sites' = lists.trusted
    /\ blocked_sites' = lists.blocked
    /\ one_time_sessions' = lists.one_time

CallUnchanged ==
    UNCHANGED <<knowledge_base, current_state, cnsVars, contextVars, decision_lock, pc,
                localVars, command_result, turn, turns>>

AddToTrustedCall(domain) ==
    /\ SetLists(AddToTrusted(CurrentLists, domain))
    /\ security_call' = SecurityCall("add_to_trusted", domain, AddReturns(domain), 0)
    /\ UNCHANGED session_usage
    /\ CallUnchanged

AddToBlockedCall(domain) ==
    /\ SetLists(AddToBlocked(CurrentLists, domain))
    /\ security_call' = SecurityCall("add_to_blocked", domain, AddReturns(domain), 0)
    /\ UNCHANGED session_usage
    /\ CallUnchanged

AddToOneTimeCall(domain) ==
    /\ SetLists(AddToOneTime(CurrentLists, domain))
    /\ security_call' = SecurityCall("add_to_one_time", domain, AddReturns(domain), 0)
    /\ UNCHANGED session_usage
    /\ CallUnchanged

RemoveFromTrustedCall(domain) ==
    /\ SetLists(RemoveFromTrusted(CurrentLists, domain))
    /\ security_call' = SecurityCall("remove_from_trusted", domain,
                                     RemoveReturns(trusted_sites, domain), 0)
    /\ UNCHANGED session_usage
    /\ CallUnchanged

RemoveFromBlockedCall(domain) ==
    /\ SetLists(RemoveFromBlocked(CurrentLists, domain))
    /\ security_call' = SecurityCall("remove_from_blocked", domain,
                                     RemoveReturns(blocked_sites, domain), 0)
    /\ UNCHANGED session_usage
    /\ CallUnchanged

ClearOneTimeSessionsCall ==
    /\ SetLists(ClearOneTimeSessions(CurrentLists))
    /\ security_call' = SecurityCall("clear_one_time_sessions", "", "count",
                                     Cardinality(one_time_sessions))
    /\ session_usage' = [domain \in UsageDomains |-> 0]
    /\ CallUnchanged

\* the use of a one-time session is counted; nothing else is changed
CheckWebsiteAccessCall(url) ==
    /\ security_call' = SecurityCall("check_website_access", url,
                                     CheckWebsiteAccess(CurrentLists, url), 0)
    /\ IF UsesOneTime(CurrentLists, url)
       THEN LET domain == ExtractDomain(StripUrl(url))
            IN  /\ session_usage[domain] < MaxSessionUsage
                /\ session_usage' = [session_usage EXCEPT ![domain] = @ + 1]
       ELSE UNCHANGED session_usage
    /\ UNCHANGED securityVars
    /\ CallUnchanged

NextSecurity ==
    \E argument \in SecurityArguments :
        \/ AddToTrustedCall(argument)
        \/ AddToBlockedCall(argument)
        \/ AddToOneTimeCall(argument)
        \/ RemoveFromTrustedCall(argument)
        \/ RemoveFromBlockedCall(argument)
        \/ ClearOneTimeSessionsCall
        \/ CheckWebsiteAccessCall(argument)

SpecSecurity == InitSecurity /\ [][NextSecurity]_vars

-----------------------------------------------------------------------------
(* handle_command with the write of the audit log: the end of the call is  *)
(* taken in two steps, the call of log_action and the return               *)

\* the command is logged: log_action appends the entry, or one of its
\* statements raises and its except clause is entered
LogCommand(t) ==
    /\ pc[t] = "hc_return"
    /\ \E outcome \in WriteOutcomes :
           Goto(t, IF outcome = "written" THEN "hc_logged" ELSE "hc_log_failed")
    /\ UNCHANGED <<brainVars, cnsVars, securityVars, contextVars, decision_lock, localVars,
                   command_result, turn, turns>>

\* what the write came to, by the place log_action is at
Written(t) == IF pc[t] = "hc_logged" THEN "written" ELSE "failed"

\* the result goes back to the caller; an exception of log_action would
\* end in the except clause of handle_command
LogReturn(t) ==
    /\ pc[t] \in {"hc_logged", "hc_log_failed"}
    /\ command_result' = [command_result EXCEPT ![t] =
                             IF LogAction(Written(t)) = "raised" THEN UnexpectedError ELSE @]
    /\ Goto(t, "idle")
    /\ UNCHANGED <<brainVars, cnsVars, securityVars, contextVars, decision_lock, localVars,
                   turn, turns>>

ReceiveAudited(t) ==
    /\ turns < MaxAuditTurns
    /\ Call(t, Tokens)

NextAudit ==
    \E t \in TextThreads :
        \/ ReceiveAudited(t)
        \/ Steps(t)
        \/ LogCommand(t)
        \/ LogReturn(t)

SpecAudit == Init /\ [][NextAudit]_vars

-----------------------------------------------------------------------------
(* The text loop and the command task, with every way out of the locked   *)
(* body of make_decision, under fair scheduling of the two threads         *)

\* texts for the ways out: no candidate ("Yes "), several actions to choose
\* from ("Search Google"), a decision or, with the sparse knowledge base, an
\* intent without actions ("what is tla"); "Yes " and "Search Google" are
\* also answers to the questions asked
FairTokens == {"Yes ", "Search Google", "what is tla"}

InitFair ==
    /\ InitWith(KnowledgeBases, {NoIntent}, {[trusted |-> {}, blocked |-> {}, one_time |-> {}]})
    /\ session_context.time_of_day = "afternoon"

ReceiveFair(t) ==
    /\ turns < MaxFairTurns
    /\ Call(t, FairTokens)

\* except Exception: a statement of the locked body raises; nothing is
\* learnt and the result is a failure
MakeDecisionRaise(t) ==
    /\ pc[t] = "md_body"
    /\ decision_result' = [decision_result EXCEPT ![t] = Failure]
    /\ user_preferences' =
           LearnFromInteraction(learning_enabled, user_preferences, process_command[t], NoIntent, FALSE)
    /\ Goto(t, "md_unlock")
    /\ UNCHANGED <<brainVars, cnsVars, securityVars, decision_lock, conversation_history,
                   session_context, chosen, command, process_command, clarification_context,
                   intent_matches, command_result, turn, turns>>

NextFair == \E t \in Threads : ReceiveFair(t) \/ Handle(t) \/ MakeDecisionRaise(t)

\* a thread inside handle_command can take a step, unless it waits for the
\* lock another thread holds
CanStep(t) == pc[t] # "idle" /\ (pc[t] = "md_lock" => LockIsFree)

\* the thread has moved on
Stepped(t) == pc'[t] # pc[t]

\* a thread that can take a step of handle_command takes it in the end:
\* weak fairness of its steps, with their enabling condition written out
SpecFair ==
    /\ InitFair
    /\ [][NextFair]_vars
    /\ \A t \in Threads : []<>(~CanStep(t)) \/ []<><<Stepped(t)>>_vars
-----------------------------------------------------------------------------
(* Properties *)

SecurityPending == pending_security_question # None
ClarificationPending == pending_decision_clarification # None

\* the call of the text thread has returned
Returned == pc["text"] = "idle" /\ turn["text"].handler # "none"

Answered(handler) == Returned /\ turn["text"].handler = handler

\* C1: after any sequence of handle_command calls issued one at a time, at
\* most one pending interrupt exists at the end of a call: the security
\* question and the decision clarification are never both set.
C1_AtMostOnePendingInterrupt ==
    pc["text"] = "idle" => ~(SecurityPending /\ ClarificationPending)

\* a call that began with one clarification pending and ended with another
C1_Witness ==
    /\ Answered("clarification")
    /\ ClarificationPending
    /\ ~SecurityPending
    /\ pending_decision_clarification[1].original_command
           # turn["text"].clarification[1].original_command

\* C2: while an interrupt is pending, handle_command hands the text to the
\* handler of that interrupt, and make_decision runs on a text only when no
\* interrupt is pending (at the earliest after the handler has cleared it).
C2_PendingInterruptHandledFirst ==
    LET seen == turn["text"]
    IN  /\ pc["text"] \notin {"idle", "hc_dispatch"} =>
              /\ seen.security # None => seen.handler = "security"
              /\ (seen.security = None /\ seen.clarification # None) => seen.handler = "clarification"
        /\ seen.handler = "security" => seen.decided = <<>>
        /\ \A i \in 1..Len(seen.decided) : ~seen.decided[i].pending

\* a clarification answer whose fallback went through make_decision
C2_Witness ==
    /\ Answered("clarification")
    /\ turn["text"].clarification # None
    /\ turn["text"].decided # <<>>

\* C3: with the listener and the text loop both in handle_command, a pending
\* interrupt is created only when none is outstanding: no step sets a pending
\* field while the other is set, or replaces a pending interrupt by another.
C3_CreatedOnlyWhenNoneOutstanding ==
    [][/\ (pending_security_question' # pending_security_question /\ pending_security_question' # None)
            => (~SecurityPending /\ ~ClarificationPending)
       /\ (pending_decision_clarification' # pending_decision_clarification
             /\ pending_decision_clarification' # None)
            => (~SecurityPending /\ ~ClarificationPending)]_vars

InLockedBody(t) == pc[t] \in {"md_body", "md_unlock"}

\* C4: at most one decision is in flight: no two threads are inside the
\* locked body of make_decision at once, and the one inside holds the lock.
C4_OneDecisionInFlight ==
    /\ Cardinality({t \in Threads : InLockedBody(t)}) <= 1
    /\ \A t \in Threads : InLockedBody(t) => decision_lock = t

\* one thread inside the body while the other waits for the lock
C4_Witness ==
    \E t, u \in Threads : pc[t] = "md_body" /\ pc[u] = "md_lock"

\* the program points whose step reads or writes the pending fields, the
\* session context or the learning counters
SharedAccessPoints ==
    {"hc_dispatch", "sec_response", "sec_clear", "clar_begin", "clar_resolve", "md_body"}

\* C5: every read or write of the session context, of the pending fields
\* and of the learning counters happens while the decision lock is held,
\* in the handling of clarification and security answers too.
C5_SharedStateUnderLock ==
    \A t \in Threads : pc[t] \in SharedAccessPoints => decision_lock = t

\* C6: in IDLE, when the utterance is resolved to an action and the
\* Executor answers with the permission sentinel, the call ends in
\* AWAITING_SECURITY_DECISION with the url and the original command stored,
\* and reports that an answer is needed, not a completion.
C6_PermissionSentinelOpensSecurityQuestion ==
    (/\ Answered("fresh")
     /\ turn["text"].executor # <<>>
     /\ turn["text"].executor[1] = [site |-> "decision", outcome |-> "ASK_USER"])
    => /\ pending_security_question =
              Some([url |-> ExtractUrl(command["text"]), original_command |-> command["text"]])
       /\ ~ClarificationPending
       /\ command_result["text"].requires_clarification
       /\ ~command_result["text"].success

C6_Witness ==
    /\ Answered("fresh")
    /\ command["text"] = "open github.com"
    /\ turn["text"].executor = <<[site |-> "decision", outcome |-> "ASK_USER"]>>
    /\ SecurityPending
    /\ pending_security_question[1].url = "github.com"

DenyWords == {"no", "n", "block", "deny", "never"}
GrantWords == {"yes", "y", "allow", "allow permanently", "permanently"}
OnceWords == {"this time only", "once", "just once", "temporary", "temp"}

\* the domain of the security question that was pending when the call began
AskedDomain == ExtractDomain(turn["text"].security[1].url)

SecurityAnswered(words) ==
    /\ Answered("security")
    /\ turn["text"].security # None
    /\ LowerStrip(command["text"]) \in words

C8_RecognizedAnswerUpdatesList ==
    SecurityAnswered(GrantWords \cup DenyWords \cup OnceWords)
    => /\ ~SecurityPending
       /\ ~ClarificationPending
       /\ LowerStrip(command["text"]) \in GrantWords =>
              /\ AskedDomain \in trusted_sites
              /\ blocked_sites \subseteq turn["text"].lists.blocked
              /\ one_time_sessions \subseteq turn["text"].lists.one_time
       /\ LowerStrip(command["text"]) \in DenyWords =>
              /\ AskedDomain \in blocked_sites
              /\ trusted_sites \subseteq turn["text"].lists.trusted
              /\ one_time_sessions \subseteq turn["text"].lists.one_time
       /\ LowerStrip(command["text"]) \in OnceWords =>
              /\ AskedDomain \in one_time_sessions
              /\ trusted_sites = turn["text"].lists.trusted
              /\ blocked_sites = turn["text"].lists.blocked

\* C9: in AWAITING_SECURITY_DECISION an unrecognized answer changes
\* nothing: the question keeps its url and original command, the three
\* lists are unchanged, the Executor is not invoked, the user is re-prompted.
C9_UnrecognizedAnswerChangesNothing ==
    (/\ Answered("security")
     /\ turn["text"].security # None
     /\ LowerStrip(command["text"]) \notin (GrantWords \cup DenyWords \cup OnceWords))
    => /\ pending_security_question = turn["text"].security
       /\ pending_decision_clarification = turn["text"].clarification
       /\ CurrentLists = turn["text"].lists
       /\ turn["text"].executor = <<>>
       /\ turn["text"].added = <<>>
       /\ command_result["text"].response = "reprompt"

C9_Witness ==
    /\ Answered("security")
    /\ turn["text"].security # None
    /\ command["text"] = "hello"
    /\ SecurityPending
    /\ command_result["text"].response = "reprompt"

\* the ranked matches of the command of the call, in the context it began with
RankedMatches == DetermineIntentWithConfidence(command["text"], turn["text"].context)

Sorted(matches) ==
    \A i, j \in 1..Len(matches) :
        i < j => matches[i].confidence >= matches[j].confidence

\* C10: in IDLE, an utterance whose best boosted confidence is strictly
\* below the threshold yields a clarification whose alternatives are the top
\* max_alternatives candidate intents in ranking order, dispatches nothing
\* and leaves the coordinator in AWAITING_CLARIFICATION with the original
\* command stored; at or above the threshold action selection runs instead.
C10_LowConfidenceAsksForClarification ==
    (Answered("fresh") /\ RankedMatches # <<>>)
    => LET decision == decision_result["text"]
           best == RankedMatches[1]
       IN  /\ Sorted(RankedMatches)
           /\ best.confidence < 700000 =>
                 /\ decision.clarification_needed
                 /\ Len(decision.alternatives) = Min(3, Len(RankedMatches))
                 /\ \A i \in 1..Len(decision.alternatives) :
                        decision.alternatives[i] = RankedMatches[i].intent
                 /\ turn["text"].executor = <<>>
                 /\ pending_decision_clarification =
                        Some([original_command |-> command["text"], decision_result |-> decision])
                 /\ ~SecurityPending
                 /\ command_result["text"].requires_clarification
           /\ best.confidence >= 700000 =>
                 \/ decision.success /\ InSeq(decision.action, KnowledgeBase[best.intent].actions)
                 \/ /\ decision.clarification_needed
                    /\ decision.alternatives = KnowledgeBase[best.intent].actions

\* four candidates, three alternatives
C10_Witness ==
    /\ Answered("fresh")
    /\ Len(RankedMatches) = 4
    /\ RankedMatches[1].confidence < 700000
    /\ ClarificationPending
    /\ Len(pending_decision_clarification[1].decision_result.alternatives) = 3


\* a call of the text thread in which make_decision ran has returned
Decided == Returned /\ turn["text"].decided # <<>>

\* the ranked matches of the command that make_decision was given in the
\* call, in the context the call began with
DecidedMatches == DetermineIntentWithConfidence(process_command["text"], turn["text"].context)

\* the decision was turned into a pending clarification for its command
AwaitingClarificationOf(cmd, decision) ==
    /\ pending_decision_clarification = Some([original_command |-> cmd, decision_result |-> decision])
    /\ ~SecurityPending
    /\ command_result["text"].requires_clarification
    /\ ~command_result["text"].success

\* C11: when the best intent has several actions and is not context
\* sensitive, no action is picked: the decision asks for clarification (with
\* all actions of the intent as alternatives once the threshold is met),
\* nothing is dispatched to the Executor in that step of the call and the
\* call ends in AWAITING_CLARIFICATION for the command.
C11_AmbiguousIntentAsksWhichAction ==
    (/\ Decided
     /\ DecidedMatches # <<>>
     /\ Len(KnowledgeBase[DecidedMatches[1].intent].actions) > 1
     /\ ~KnowledgeBase[DecidedMatches[1].intent].context_sensitive)
    => LET decision == decision_result["text"]
           best == DecidedMatches[1]
       IN  /\ decision.clarification_needed
           /\ ~decision.success
           /\ decision.action = NoAction
           /\ best.confidence >= 700000 =>
                  decision.alternatives = KnowledgeBase[best.intent].actions
           /\ \A i \in 1..Len(turn["text"].executor) : turn["text"].executor[i].site = "clarification"
           /\ AwaitingClarificationOf(process_command["text"], decision)

C11_Witness ==
    /\ Answered("fresh")
    /\ command["text"] = "google cats"
    /\ decision_result["text"].intent = "search_web"
    /\ decision_result["text"].confidence >= 700000
    /\ turn["text"].executor = <<>>
    /\ ClarificationPending
    /\ pending_decision_clarification[1].decision_result.alternatives = <<"search_google", "search_bing">>

\* C12: when the best intent has exactly one action and the threshold is
\* met, the decision is that action and never a request for clarification,
\* whatever the flags of the entry and the learning counters are.
C12_SingleActionNeverAsks ==
    (/\ Decided
     /\ DecidedMatches # <<>>
     /\ DecidedMatches[1].confidence >= 700000
     /\ Len(KnowledgeBase[DecidedMatches[1].intent].actions) = 1)
    => LET decision == decision_result["text"]
       IN  /\ decision.success
           /\ ~decision.clarification_needed
           /\ decision.action = KnowledgeBase[DecidedMatches[1].intent].actions[1]
           /\ ~ClarificationPending

\* the second decision for the intent, with a counter already in the store
C12_Witness ==
    /\ Decided
    /\ command["text"] = "open github"
    /\ decision_result["text"].success
    /\ decision_result["text"].action = "open_application"
    /\ \E i \in 1..Len(user_preferences["launch_app"]) : user_preferences["launch_app"][i].count >= 2

\* a step in which make_decision, called by the text thread, resolves a command
DecisionResolves ==
    /\ pc["text"] = "md_body"
    /\ pc'["text"] = "md_unlock"
    /\ decision_result'["text"].success

\* a step in which a clarification answer of the text thread resolves the
\* original command
ClarificationResolves ==
    /\ pc["text"] = "clar_resolve"
    /\ pc'["text"] = "clar_exec"

\* the action resolved most often for the intent so far, when there is one,
\* and the first action of the priority list otherwise
PreferredAction(intent) ==
    IF chosen[intent] # <<>> /\ InSeq(MostCommon(chosen[intent]), KnowledgeBase[intent].actions)
    THEN MostCommon(chosen[intent])
    ELSE KnowledgeBase[intent].priority[1]

\* C13: for an intent with several actions that is context sensitive, the
\* decision is the action that earlier successful resolutions chose most
\* often for the intent, and the first action of the priority list when
\* there was none.
C13_SelectsMostFrequentChoice ==
    [][LET decision == decision_result'["text"]
       IN  (/\ DecisionResolves
            /\ Len(KnowledgeBase[decision.intent].actions) > 1
            /\ KnowledgeBase[decision.intent].context_sensitive)
           => decision.action = PreferredAction(decision.intent)]_vars

\* the command of the clarification that was pending when the call began
AskedCommand == turn["text"].clarification[1].original_command

AskedMatches == DetermineIntentWithConfidence(AskedCommand, turn["text"].context)

\* the call of the text thread was an answer to a pending clarification
ClarificationAnswered == Answered("clarification") /\ turn["text"].clarification # None

\* the answer names one of the actions that the command can be resolved to
CandidateNamed ==
    /\ AskedMatches # <<>>
    /\ MatchedActions(KnowledgeBase[AskedMatches[1].intent].actions, command["text"]) # <<>>

\* C14: in AWAITING_CLARIFICATION, an answer that contains the name of a
\* candidate action (with spaces for underscores, in any case) is resolved
\* to that action, the action is dispatched to the Executor, and the call
\* ends in IDLE with no pending interrupt, whatever the Executor returns.
C14_MatchedAnswerReturnsToIdle ==
    (ClarificationAnswered /\ CandidateNamed)
    => /\ turn["text"].executor # <<>>
       /\ turn["text"].executor[1].site = "clarification"
       /\ ~SecurityPending
       /\ ~ClarificationPending

\* the call re-prompted: the clarification stays pending for the same command
Reprompted ==
    /\ ClarificationPending
    /\ pending_decision_clarification[1].original_command = AskedCommand
    /\ command_result["text"].requires_clarification
    /\ turn["text"].decided = <<>>
    /\ turn["text"].executor = <<>>

\* the call processed the original command and the answer as a new command
FellBack ==
    /\ turn["text"].decided # <<>>
    /\ turn["text"].decided[1].command = Concat(AskedCommand, command["text"])

\* C15: in AWAITING_CLARIFICATION, an answer that names no candidate has
\* exactly one of two outcomes: the clarification stays pending for the same
\* original command and the user is re-prompted, or, only when the original
\* command resolves to no intent at all, the original command followed by
\* the answer is processed as a new command.
C15_UnmatchedAnswerRepromptsOrFallsBack ==
    (ClarificationAnswered /\ ~CandidateNamed)
    => /\ Reprompted # FellBack
       /\ FellBack => AskedMatches = <<>>

C15_Witness ==
    /\ ClarificationAnswered
    /\ AskedCommand = "google cats"
    /\ command["text"] = "no"
    /\ Reprompted
    /\ command_result["text"].response = "clarify"

\* C16: repeated misunderstanding does not keep the coordinator in
\* AWAITING_CLARIFICATION: when the pending clarification is already a
\* re-prompt, one more answer that names no candidate takes the fallback and
\* the clarification for that original command is no longer pending.
C16_NoSecondReprompt ==
    (/\ ClarificationAnswered
     /\ turn["text"].clarification[1].decision_result = NotUnderstood
     /\ ~CandidateNamed)
    => ~(ClarificationPending /\ pending_decision_clarification[1].original_command = AskedCommand)

RECURSIVE Total(_)
Total(counter) == IF counter = <<>> THEN 0 ELSE Head(counter).count + Total(Tail(counter))

\* the step records the resolution of cmd: the entry is the last of the
\* recent turns, last_intent is the resolved intent and the counter of the
\* intent has grown by one
Recorded(cmd, decision) ==
    /\ conversation_history' # <<>>
    /\ conversation_history'[Len(conversation_history')] =
           [command |-> cmd, intent |-> decision.intent, action |-> decision.action]
    /\ Len(conversation_history') = Min(Len(conversation_history) + 1, 5)
    /\ session_context'.last_intent = decision.intent
    /\ Total(user_preferences'[decision.intent]) = Total(user_preferences[decision.intent]) + 1

\* C17: every successful resolution, by make_decision and by a matched
\* clarification answer alike, appends (utterance, intent, action) to the
\* recent turns, sets last_intent to the resolved intent and increments the
\* learning counter of that intent by one.
C17_ResolutionIsRecorded ==
    [][/\ DecisionResolves => Recorded(process_command["text"], decision_result'["text"])
       /\ ClarificationResolves => Recorded(clarification_context["text"], decision_result'["text"])]_vars

\* the last context_window entries of the history with one more entry
AppendedWithinWindow(history, entry) ==
    IF Len(history) < 5 THEN Append(history, entry) ELSE Append(Tail(history), entry)

\* C18: the recent turns never hold more than context_window entries; a
\* decision that succeeds appends its entry and, at capacity, the oldest
\* entry is the one dropped, and nothing else changes the recent turns: they
\* are the most recent successful decisions, in order.
C18_HistoryIsBounded ==
    [][/\ Len(conversation_history') <= 5
       /\ DecisionResolves =>
              conversation_history' =
                  AppendedWithinWindow(conversation_history,
                                       [command |-> process_command["text"],
                                        intent |-> decision_result'["text"].intent,
                                        action |-> decision_result'["text"].action])
       /\ conversation_history' # conversation_history => DecisionResolves]_vars

\* six decisions succeeded, the first of them is gone
C18_Witness ==
    /\ Len(conversation_history) = 5
    /\ conversation_history[1].command = "open github"
    /\ \A i \in 2..5 : conversation_history[i].command = "what is tla"
    /\ user_preferences["get_info"] = <<[key |-> "what is tla", count |-> 5]>>

\* C19: a call that does not end in a successful decision (blank text, no
\* match, clarification for low confidence or for an ambiguous action, an
\* answer to a pending interrupt) leaves the session context as it was when
\* the call began: the recent turns and last_intent are unchanged.
C19_FailedTurnLeavesContext ==
    (Returned /\ ~(turn["text"].decided # <<>> /\ decision_result["text"].success))
    => /\ conversation_history = turn["text"].history
       /\ session_context = turn["text"].context

\* a low-confidence clarification after a successful decision
C19_Witness ==
    /\ Answered("fresh")
    /\ command["text"] = "tell"
    /\ decision_result["text"].clarification_needed
    /\ turn["text"].context.last_intent = "get_info"
    /\ turn["text"].history # <<>>
    /\ conversation_history = turn["text"].history

CountOf(counter, key) ==
    IF \E i \in 1..Len(counter) : counter[i].key = key
    THEN counter[CHOOSE i \in 1..Len(counter) : counter[i].key = key].count
    ELSE 0

Keys(counter) == {counter[i].key : i \in 1..Len(counter)}

\* C20: the learning counters grow monotonically: no step decreases or
\* removes a count; a count changes only in a successful resolution with an
\* intent, by one; and with learning disabled nothing is counted.
C20_CountersGrowMonotonically ==
    [][/\ \A intent \in Intents : \A key \in Keys(user_preferences[intent]) :
              CountOf(user_preferences'[intent], key) >= CountOf(user_preferences[intent], key)
       /\ user_preferences' # user_preferences =>
              /\ DecisionResolves \/ ClarificationResolves
              /\ decision_result'["text"].intent # NoIntent
              /\ \A intent \in Intents :
                     Total(user_preferences'[intent]) =
                         Total(user_preferences[intent])
                             + (IF intent = decision_result'["text"].intent THEN 1 ELSE 0)
       /\ \A cmd \in Tokens, intent \in Intents \cup {NoIntent}, success \in BOOLEAN :
              LearnFromInteraction(FALSE, user_preferences', cmd, intent, success) = user_preferences']_vars

\* counts from a decision and from a clarification answer, for one intent
C20_Witness ==
    /\ Len(user_preferences["get_info"]) = 2
    /\ CountOf(user_preferences["get_info"], "tell") = 1
    /\ CountOf(user_preferences["get_info"], "what is tla") = 1

-----------------------------------------------------------------------------
(* Intent resolution: the ranked matches of make_decision *)

\* make_decision has resolved the command of the call and not yet returned
Ranked == pc["text"] = "md_unlock"

\* what the call resolved, and the session context it resolved it in
RankedCommand == process_command["text"]
RankedContext == turn["text"].context

ConfidenceOf(matches, intent) ==
    LET i == CHOOSE k \in 1..Len(matches) : matches[k].intent = intent
    IN  matches[i].confidence

IntentsOf(matches) == {matches[i].intent : i \in 1..Len(matches)}

\* C21: for every utterance and every session context, the match list
\* returned by intent resolution is sorted in non-increasing order of
\* confidence and every confidence in it lies between 0 and 1.
C21_MatchesSortedWithinUnitInterval ==
    LET matches == intent_matches["text"]
    IN  /\ Sorted(matches)
        /\ \A i \in 1..Len(matches) :
               matches[i].confidence >= 0 /\ matches[i].confidence <= One

\* the boosts put another intent first than the raw ranking has, and a
\* confidence reaches 1
C21_Witness ==
    /\ Ranked
    /\ RankedCommand = "play a funny video"
    /\ RankedContext = [last_intent |-> "entertainment", time_of_day |-> "night"]
    /\ Len(intent_matches["text"]) = 3
    /\ intent_matches["text"][1].intent = "entertainment"
    /\ RawMatches(RankedCommand)[1].intent = "find_video"
    /\ intent_matches["text"][1].confidence > intent_matches["text"][3].confidence

\* C22: an utterance that matches no pattern of any intent yields the empty
\* match list, and an intent appears in the list only if one of its
\* patterns matched the utterance, each intent at most once.
C22_OnlyMatchedIntentsAppear ==
    Ranked =>
        LET matches == intent_matches["text"]
            hits == Profile(RankedCommand).hits
        IN  /\ hits = <<>> => matches = <<>>
            /\ \A i \in 1..Len(matches) :
                   \E k \in 1..Len(hits) : hits[k].intent = matches[i].intent
            /\ \A i, j \in 1..Len(matches) :
                   i # j => matches[i].intent # matches[j].intent

C22_Witness ==
    /\ Ranked
    /\ RankedCommand = "hello"
    /\ Profile(RankedCommand).hits = <<>>
    /\ intent_matches["text"] = <<>>

\* min(1.0, raw + 0.1 * [intent = last_intent] + 0.05 * [intent in the table
\* of the time bucket])
Boosted(raw_confidence, intent, context) ==
    Min(One, raw_confidence
               + (IF intent = context.last_intent THEN 100000 ELSE 0)
               + (IF intent \in TimeBoosts(context.time_of_day) THEN 50000 ELSE 0))

\* C23: boosting never lowers a confidence: the boosted confidence of every
\* match is min(1.0, raw + 0.1 if its intent is last_intent + 0.05 if its
\* intent is in the table of the time bucket), the two boosts adding up, so
\* that boosted >= raw.
C23_BoostsAddUpAndNeverLower ==
    Ranked =>
        LET matches == intent_matches["text"]
            raw == RawMatches(RankedCommand)
        IN  /\ Len(matches) = Len(raw)
            /\ IntentsOf(matches) = IntentsOf(raw)
            /\ \A i \in 1..Len(raw) :
                   LET boosted == ConfidenceOf(matches, raw[i].intent)
                   IN  /\ boosted = Boosted(raw[i].confidence, raw[i].intent, RankedContext)
                       /\ boosted >= raw[i].confidence

\* both boosts on one match, below the cap
C23_Witness ==
    /\ Ranked
    /\ RankedCommand = "open music video file"
    /\ RankedContext = [last_intent |-> "find_video", time_of_day |-> "evening"]
    /\ ConfidenceOf(intent_matches["text"], "find_video")
         = ConfidenceOf(RawMatches(RankedCommand), "find_video") + 150000
    /\ ConfidenceOf(intent_matches["text"], "find_video") < One

\* the call before this one resolved the same utterance, to this intent,
\* and last_intent was set to it
ResolvedBefore(intent) ==
    /\ intent # NoIntent
    /\ RankedContext.last_intent = intent
    /\ turn["text"].history # <<>>
    /\ LET last == turn["text"].history[Len(turn["text"].history)]
       IN  last.command = RankedCommand /\ last.intent = intent

\* C24: when an utterance is resolved to an intent, last_intent is set to
\* that intent and the same utterance is resolved again, the intent is in
\* the second list with a confidence that is at least its raw confidence
\* of the first run.
C24_ResolvingAgainDoesNotLower ==
    \A intent \in Intents :
        (Ranked /\ ResolvedBefore(intent)) =>
            /\ intent \in IntentsOf(intent_matches["text"])
            /\ ConfidenceOf(intent_matches["text"], intent)
                 >= ConfidenceOf(RawMatches(RankedCommand), intent)

\* the second run has the intent higher than the first had it
C24_Witness ==
    /\ Ranked
    /\ RankedCommand = "open github"
    /\ ResolvedBefore("launch_app")
    /\ ConfidenceOf(intent_matches["text"], "launch_app")
         > ConfidenceOf(RawMatches(RankedCommand), "launch_app")

\* the place of an intent in the pattern bank, and in a list of matches
Declared(intent) == CHOOSE k \in 1..Len(IntentOrder) : IntentOrder[k] = intent

RankIn(matches, intent) == CHOOSE k \in 1..Len(matches) : matches[k].intent = intent

\* C25 as stated: in the returned list matches of equal confidence are in
\* the order in which their intents are declared in the pattern bank.
C25_TiesInDeclarationOrder ==
    Ranked =>
        LET matches == intent_matches["text"]
        IN  \A i, j \in 1..Len(matches) :
                (i < j /\ matches[i].confidence = matches[j].confidence)
                => Declared(matches[i].intent) < Declared(matches[j].intent)

\* C25, amended: matches of equal confidence keep the order they had before
\* the sort: in the raw ranking the order in which their intents are
\* declared, in the returned list the order of the raw ranking.
C25_TiesKeepOrderBeforeSort ==
    Ranked =>
        LET matches == intent_matches["text"]
            raw == RawMatches(RankedCommand)
        IN  /\ \A i, j \in 1..Len(raw) :
                   (i < j /\ raw[i].confidence = raw[j].confidence)
                   => Declared(raw[i].intent) < Declared(raw[j].intent)
            /\ \A i, j \in 1..Len(matches) :
                   (i < j /\ matches[i].confidence = matches[j].confidence)
                   => RankIn(raw, matches[i].intent) < RankIn(raw, matches[j].intent)

\* a boost brings an intent declared earlier level with one ranked above it
C25_Witness ==
    /\ Ranked
    /\ RankedCommand = "what is the search video x"
    /\ RankedContext.last_intent = "find_video"
    /\ intent_matches["text"][1].intent = "get_info"
    /\ intent_matches["text"][2].intent = "find_video"
    /\ intent_matches["text"][1].confidence = intent_matches["text"][2].confidence
    /\ Declared("find_video") < Declared("get_info")

-----------------------------------------------------------------------------
(* Failures of the Executor *)

\* a call of the Executor in this turn raised
ExecutorRaisedAt(site) ==
    \E i \in 1..Len(turn["text"].executor) :
        turn["text"].executor[i] = [site |-> site, outcome |-> "raised"]

ExecutorRaised ==
    \E site \in {"decision", "clarification", "command", "open_website"} : ExecutorRaisedAt(site)

\* C26: an exception raised by the Executor during dispatch does not leave
\* handle_command: the call returns a result, and at the end of the turn no
\* interrupt is pending, whether the dispatch was made from IDLE, after a
\* clarification answer, or after a security answer.
C26_ExecutorFailureEndsInIdle ==
    (Returned /\ ExecutorRaised) =>
        /\ command_result["text"] # NoResult
        /\ ~SecurityPending
        /\ ~ClarificationPending

-----------------------------------------------------------------------------
(* Decisions that are none *)

ContextKept ==
    /\ UNCHANGED conversation_history
    /\ UNCHANGED session_context
    /\ UNCHANGED user_preferences

\* C27: when intent resolution yields no candidate for a non-empty
\* utterance, make_decision reports no decision as a value (None, not a
\* failure result), no pending clarification is created for it, and neither
\* the session context nor the learning counters change.
C27_NoCandidateIsNoDecision ==
    [][/\ (pc["text"] = "md_body" /\ intent_matches'["text"] = <<>>) =>
              /\ decision_result'["text"].kind = "None"
              /\ ContextKept
              /\ UNCHANGED pending_decision_clarification
       /\ (pc["text"] = "pce_route" /\ decision_result["text"].kind = "None") =>
              /\ pc'["text"] = "pce_response"
              /\ ContextKept
              /\ UNCHANGED pending_decision_clarification]_vars

\* the coordinator has gone on to the response brain with no decision
C27_Witness ==
    /\ pc["text"] = "pce_response"
    /\ process_command["text"] = "hello"
    /\ turn["text"].handler = "fresh"
    /\ intent_matches["text"] = <<>>
    /\ decision_result["text"].kind = "None"
    /\ ~ClarificationPending
    /\ session_context = turn["text"].context
    /\ user_preferences = turn["text"].preferences

\* C28: an empty or whitespace-only utterance is answered at once:
\* make_decision returns a failure result without resolving anything,
\* without taking the decision lock, and without entering the body in which
\* the decision counters, the session context and the learning counters
\* are written.
C28_BlankShortCircuits ==
    [][(pc["text"] = "md_enter" /\ process_command["text"] \in BlankCommands) =>
           /\ pc'["text"] = "pce_route"
           /\ decision_result'["text"].kind = "DecisionResult"
           /\ ~decision_result'["text"].success
           /\ ~decision_result'["text"].clarification_needed
           /\ decision_result'["text"].intent = NoIntent
           /\ UNCHANGED decision_lock
           /\ UNCHANGED intent_matches
           /\ UNCHANGED chosen
           /\ ContextKept]_vars

C28_Witness ==
    /\ pc["text"] = "pce_route"
    /\ process_command["text"] = " "
    /\ turn["text"].decided = <<[command |-> " ", pending |-> FALSE]>>
    /\ decision_result["text"] = Failure
    /\ decision_lock = NoThread
    /\ session_context = turn["text"].context
    /\ user_preferences = turn["text"].preferences

\* the best intent is at or above the threshold and the knowledge base has
\* no entry for it, or an entry without actions
NothingToDo ==
    /\ intent_matches["text"] # <<>>
    /\ intent_matches["text"][1].confidence >= confidence_threshold
    /\ LET intent == intent_matches["text"][1].intent
       IN  \/ intent \notin DOMAIN knowledge_base
           \/ knowledge_base[intent].actions = <<>>

\* C29: when the resolved intent has no knowledge-base entry, or an entry
\* that lists no action, make_decision reports no decision: no action is
\* selected, no clarification is asked for, and the session context and the
\* learning counters are as they were.
C29_NoActionsIsNoDecision ==
    (Ranked /\ NothingToDo) =>
        /\ decision_result["text"].kind = "None"
        /\ decision_result["text"].action = NoAction
        /\ ~decision_result["text"].clarification_needed
        /\ conversation_history = turn["text"].history
        /\ session_context = turn["text"].context
        /\ user_preferences = turn["text"].preferences

\* an intent without an entry
C29_Witness ==
    /\ Ranked
    /\ RankedCommand = "open github"
    /\ intent_matches["text"][1].intent = "launch_app"
    /\ "launch_app" \notin DOMAIN knowledge_base
    /\ NothingToDo
    /\ decision_result["text"] = NoDecision

-----------------------------------------------------------------------------
(* The listening brain *)

\* C30: the command capture of the listener always ends in WAKE_WORD: when
\* the command task is over, after a recognized command, after the timeout
\* or after an error, the state is WAKE_WORD again; and when the capture
\* ends by the timeout, no utterance has been given to the coordinator and
\* the state of the coordinator is as it was.
C30_CaptureReturnsToWakeWord ==
    [][\A t \in ListenerThreads :
           /\ (pc[t] # "idle" /\ pc'[t] = "idle") => current_state' = "WAKE_WORD"
           /\ (pc[t] # "lb_timeout" /\ pc'[t] = "lb_timeout") =>
                  /\ UNCHANGED <<cnsVars, securityVars, contextVars>>
                  /\ UNCHANGED <<command, turn, turns>>]_vars

\* the command tasks that have been started and have not ended
ActiveTasks == {t \in ListenerThreads : pc[t] # "idle"}

\* the points of a command task outside handle_command
TaskPoints == {"idle", "lb_start", "lb_listen", "lb_timeout", "lb_except", "lb_finally"}

\* C31: at most one command task is active at any time: a wake word heard
\* in COMMAND state starts no task, and a task that is active means the
\* state is COMMAND.  A task gives the coordinator at most one utterance:
\* it calls handle_command only from its loop, it enters the loop only from
\* its start, and a task starts only when none is active.
C31_OneTaskOneUtterance ==
    [][/\ Cardinality(ActiveTasks) <= 1
       /\ ActiveTasks # {} => current_state = "COMMAND"
       /\ \A t \in ListenerThreads :
              /\ (pc[t] = "idle" /\ pc'[t] # "idle")
                     => /\ ActiveTasks = {}
                        /\ current_state = "WAKE_WORD"
                        /\ pc'[t] = "lb_start"
              /\ (pc[t] # "lb_listen" /\ pc'[t] = "lb_listen") => pc[t] = "lb_start"
              /\ turns' # turns
                     => /\ turns' = turns + 1
                        /\ \E u \in ListenerThreads :
                               pc[u] = "lb_listen" /\ pc'[u] \notin TaskPoints
              /\ (pc[t] \notin TaskPoints /\ pc'[t] \in TaskPoints) => pc'[t] = "lb_finally"]_vars

\* the second task started gives its utterance after the first has ended
C31_Witness ==
    /\ pc["listener"] = "idle"
    /\ pc["listener2"] = "hc_return"
    /\ turn["listener"].handler # NoTurn.handler
    /\ turns = 2
    /\ current_state = "COMMAND"

-----------------------------------------------------------------------------
(* The security brain *)

\* the step is the call of one of these methods
Called(ops) == security_call'.op \in ops

\* the domain an add or remove call is about, and the one a check is about
CalledDomain == ExtractDomain(security_call'.argument)
CheckedDomain(url) == ExtractDomain(StripUrl(url))

CallSucceeded == security_call'.result = "True"

\* C35: the blocklist comes first in the access check: once add_to_blocked
\* has succeeded for a domain, check_website_access answers DENIED for it,
\* also when it has a one-time session, until remove_from_blocked or
\* add_to_trusted takes it off the blocklist; and once add_to_trusted has
\* succeeded for a domain the answer is ALLOWED until the domain is blocked
\* or removed from the trusted list.
C35_BlocklistHasPriority ==
    [][\A domain \in UsageDomains :
           /\ (Called({"add_to_blocked"}) /\ CallSucceeded /\ CalledDomain = domain)
                  => domain \in blocked_sites'
           /\ (domain \in blocked_sites /\ domain \notin blocked_sites')
                  => Called({"remove_from_blocked", "add_to_trusted"}) /\ CalledDomain = domain
           /\ (Called({"check_website_access"}) /\ domain \in blocked_sites
               /\ CheckedDomain(security_call'.argument) = domain)
                  => security_call'.result = "DENIED"
           /\ (Called({"add_to_trusted"}) /\ CallSucceeded /\ CalledDomain = domain)
                  => domain \in trusted_sites'
           /\ (domain \in trusted_sites /\ domain \notin trusted_sites')
                  => Called({"remove_from_trusted", "add_to_blocked"}) /\ CalledDomain = domain
           /\ (Called({"check_website_access"}) /\ domain \in trusted_sites
               /\ CheckedDomain(security_call'.argument) = domain)
                  => security_call'.result = "ALLOWED"]_vars

\* a blocked domain with a one-time session is denied
C35_Witness ==
    /\ "github.com" \in blocked_sites
    /\ "github.com" \in one_time_sessions
    /\ security_call = SecurityCall("check_website_access", "https://www.github.com/zia", "DENIED", 0)

\* C36: a one-time session gives access once: of two checks in a row of
\* a domain that is neither trusted nor blocked, the first having been
\* allowed, the second asks the user again.
C36_OneTimeAccessIsUsedUp ==
    [][\A domain \in UsageDomains :
           (/\ security_call.op = "check_website_access"
            /\ security_call.result = "ALLOWED"
            /\ CheckedDomain(security_call.argument) = domain
            /\ domain \notin trusted_sites
            /\ domain \notin blocked_sites
            /\ Called({"check_website_access"})
            /\ CheckedDomain(security_call'.argument) = domain)
           => security_call'.result = "ASK_USER"]_vars

\* C37: the trusted and the blocked list, disjoint in the configuration,
\* are disjoint after any sequence of add_to_trusted, add_to_blocked,
\* add_to_one_time, remove_from_trusted, remove_from_blocked and
\* clear_one_time_sessions.
C37_TrustedAndBlockedDisjoint == trusted_sites \cap blocked_sites = {}

\* a domain has been moved to the trusted list while another is blocked
C37_Witness ==
    /\ security_call = SecurityCall("add_to_trusted", "https://www.github.com/zia", "True", 0)
    /\ trusted_sites = {"github.com"}
    /\ blocked_sites = {"example.org"}
    /\ one_time_sessions = {"example.org"}

\* C38: add_to_trusted, add_to_blocked and add_to_one_time return False for
\* a domain that fails validation and leave the three lists as they are;
\* check_website_access answers DENIED for an empty url and for an invalid
\* domain, and never changes the three lists.
C38_InvalidDomainChangesNothing ==
    [][/\ (Called({"add_to_trusted", "add_to_blocked", "add_to_one_time"})
           /\ CalledDomain \notin ValidDomains)
              => security_call'.result = "False" /\ UNCHANGED securityVars
       /\ Called({"check_website_access"})
              => /\ UNCHANGED securityVars
                 /\ (\/ security_call'.argument \in BlankUrls
                     \/ CheckedDomain(security_call'.argument) \notin ValidDomains)
                        => security_call'.result = "DENIED"]_vars

C38_Witness ==
    /\ security_call = SecurityCall("add_to_blocked", "not a domain", "False", 0)
    /\ "not a domain" \notin blocked_sites
    /\ ExtractDomain("not a domain") \notin ValidDomains

-----------------------------------------------------------------------------
(* Intent resolution: one score per intent *)

\* the patterns of an intent that match the command
HitsOf(cmd, intent) ==
    SelectSeq(Profile(cmd).hits, LAMBDA hit : hit.intent = intent)

\* the score of one matching pattern, capped at 1.0
Score(cmd, hit) == Min(PatternConfidence(hit, Profile(cmd).ulen), One)

\* C34: an intent's raw confidence is the highest of the scores of its
\* matching patterns, never a sum over tiers or patterns; and a pattern of
\* a higher tier scores more than one of a lower tier: high scores are at
\* least 0.9, medium scores lie between 0.6 and 0.8, low scores are at
\* most 0.5.
C34_HighestScoringPatternOnly ==
    Ranked =>
        LET cmd == RankedCommand
            matches == RawMatches(cmd)
            hits == Profile(cmd).hits
        IN  /\ \A i \in 1..Len(matches) :
                   LET own == HitsOf(cmd, matches[i].intent)
                   IN  /\ \E k \in 1..Len(own) : matches[i].confidence = Score(cmd, own[k])
                       /\ \A k \in 1..Len(own) : matches[i].confidence >= Score(cmd, own[k])
            /\ \A k \in 1..Len(hits) :
                   LET score == PatternConfidence(hits[k], Profile(cmd).ulen)
                   IN  /\ hits[k].tier = "high" => score >= 900000
                       /\ hits[k].tier = "medium" => score >= 600000 /\ score <= 800000
                       /\ hits[k].tier = "low" => score <= 500000
            /\ \A k, l \in 1..Len(hits) :
                   (\/ hits[k].tier = "high" /\ hits[l].tier \in {"medium", "low"}
                    \/ hits[k].tier = "medium" /\ hits[l].tier = "low")
                   => Score(cmd, hits[k]) > Score(cmd, hits[l])

\* a medium and a low pattern of open_website both match: 0.8, not 1.0
C34_Witness ==
    /\ Ranked
    /\ RankedCommand = "open github.com"
    /\ Len(HitsOf(RankedCommand, "open_website")) = 2
    /\ ConfidenceOf(RawMatches(RankedCommand), "open_website") = 800000

-----------------------------------------------------------------------------
(* The audit log *)

\* C32: log_action raises nothing when its write fails: after the write
\* of the command's entry, failed or not, handle_command gives the caller
\* the result the handlers made, and neither the write nor the return
\* changes the state of the coordinator.
C32_FailedWriteChangesNothing ==
    [][\A t \in AllThreads :
           (pc[t] \in {"hc_return", "hc_logged", "hc_log_failed"} /\ pc'[t] # pc[t])
           => /\ command_result'[t] = command_result[t]
              /\ UNCHANGED <<cnsVars, securityVars, contextVars, decision_lock>>]_vars

\* a command has succeeded and its entry could not be written
C32_Witness ==
    /\ pc["text"] = "hc_log_failed"
    /\ command_result["text"].success
    /\ command_result["text"].source_brain # "CNS_Error_Handler"

-----------------------------------------------------------------------------
(* Parameters and the automation command *)

\* the name the claim gives the primary entity of an intent
MappedAs(intent) ==
    CASE intent \in {"find_video", "get_info", "search_web", "learning"} -> <<"topic">>
      [] intent = "play_music" -> <<"music_query">>
      [] intent = "open_website" -> <<"url">>
      [] intent = "launch_app" -> <<"application">>
      [] OTHER -> <<>>

\* C33: in a successful decision the primary entity of the best match is
\* stored under the name of its intent family (topic, music_query, url or
\* application) and is part of the automation command; for any other
\* intent the parameters are the extracted entities, unchanged.
C33_MappedValueInAutomationCommand ==
    (Ranked /\ decision_result["text"].success) =>
        LET result == decision_result["text"]
            entities == intent_matches["text"][1].extracted_entities
            primary == GetItem(entities, "primary_entity", "")
            name == MappedAs(result.intent)
        IN  /\ (name # <<>> /\ HasKey(entities, "primary_entity"))
                   => /\ HasKey(result.parameters, name[1])
                      /\ GetItem(result.parameters, name[1], "") = primary
                      /\ InSeq(primary, result.automation_command)
            /\ name = <<>> => result.parameters = entities

-----------------------------------------------------------------------------
(* The decision lock is given back *)

\* C39: whichever way make_decision is left - no candidate, a question
\* about the intent or about the action, no actions, a decision, an
\* exception - the thread no longer holds the decision lock; and with the
\* text loop and the command task both calling, every call of
\* handle_command returns.
C39_LockReleasedAndCallsReturn ==
    /\ [](\A t \in Threads : decision_lock = t => pc[t] \in {"md_body", "md_unlock"})
    /\ \A t \in Threads : (pc[t] # "idle") ~> (pc[t] = "idle")

\* the command task waits for the lock the text loop holds
C39_Witness ==
    /\ pc["listener"] = "md_lock"
    /\ pc["text"] = "md_unlock"
    /\ decision_lock = "text"
    /\ decision_result["text"].kind = "DecisionResult"
    /\ ~decision_result["text"].success
    /\ ~decision_result["text"].clarification_needed
=============================================================================
